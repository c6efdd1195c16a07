------------------------------ MODULE MCVenue -------------------------------
EXTENDS Venue

Definition(precision, pips, increments, sizes) ==
    [price_increment : {2, 3}, price_unit : precision, pip_size : pips,
     contract_size : {1, 2}, quantity_unit : {"units", "lots"},
     quantity_increment : increments, min_quantity : sizes,
     max_quantity : {{}, {6}, {7}}, max_leverage : {{}, {2}}]

MCDefinitions ==
    Definition({1}, {{}}, {1, 3}, {1, 3, 4}) \cup Definition({2}, {{}, {5}, {6}}, {3}, {3})

Shape(type, tif, trailing, others) ==
    [order_type |-> type, time_in_force |-> tif, trailing_distance |-> trailing,
     expires |-> "expires" \in others, post_only |-> "post_only" \in others,
     reduce_only |-> "reduce_only" \in others, attaches |-> "attaches" \in others]

MCShapes ==
    {Shape("market", "ioc", {}, {}), Shape("limit", "gtc", {}, {"post_only"}),
     Shape("limit", "fok", {}, {"post_only"}),
     Shape("limit", "gtd", {}, {"expires", "reduce_only"}),
     Shape("stop_limit", "gtd", {}, {}), Shape("market", "day", {}, {"attaches"}),
     Shape("trailing_stop", "gtc", {3}, {}), Shape("trailing_stop", "gtc", {0}, {})}

\* The floor, a venue without attached orders, and one with them only.
MCVenues ==
    {minimal,
     [minimal EXCEPT !.order_types = OrderTypes, !.time_in_force = TimesInForce,
                     !.supports_reduce_only = TRUE, !.supports_post_only = TRUE],
     [minimal EXCEPT !.order_types = {"market"}, !.time_in_force = {"day"},
                     !.supports_attached_stops = TRUE]}

Level(price, size) == [price |-> price, size |-> size]

\* A book, a locked one, one without bids, and one whose bids are not in order.
MCBooks ==
    {[bids |-> <<Level(4, 1), Level(3, 2)>>, asks |-> <<Level(6, 1)>>],
     [bids |-> <<Level(6, 1)>>, asks |-> <<Level(6, 1), Level(6, 3)>>],
     [bids |-> <<>>, asks |-> <<Level(5, 1)>>],
     [bids |-> <<Level(3, 1), Level(7, 1)>>, asks |-> <<Level(6, 1)>>]}
=============================================================================
