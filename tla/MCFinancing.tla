---------------------------- MODULE MCFinancing -----------------------------
(***************************************************************************)
(* Financing for TLC: a day of eight ticks and four seconds.  Sessions of  *)
(* every shape (within a day, over midnight, over the week's end, a whole  *)
(* week), alone and in pairs, with holidays inside and between them, in    *)
(* zones whose clock goes forward or back by two ticks in the first week,  *)
(* about midnight or noon.                                                 *)
(***************************************************************************)
EXTENDS Financing

Sunday == 6
Days == {0, 4, Sunday}
Times == {0, 4}

Sessions == [open_day : Days, open_time : Times, close_day : Days, close_time : Times]

HolidaySets == {{}, {15}, {18, 19, 20}, {22}}

Fixed == [change |-> 0, shift |-> 0]

\* On the third Sunday the clock skips or repeats its noon, or two ticks that
\* begin or end at its midnight.
Changing ==
    {[change |-> 163, shift |-> 2], [change |-> 165, shift |-> -2],
     [change |-> 160, shift |-> 2], [change |-> 162, shift |-> -2],
     [change |-> 160, shift |-> -2]}

Weekly(zone, sessions, holidays) ==
    [zone |-> zone, always_open |-> FALSE, sessions |-> sessions, holidays |-> holidays]

Always(zone, holidays) ==
    [zone |-> zone, always_open |-> TRUE, sessions |-> <<>>, holidays |-> holidays]

Singles ==
    {Weekly(Fixed, <<s>>, holidays) : s \in Sessions, holidays \in HolidaySets}
    \cup {Weekly(zone, <<s>>, {20}) : s \in Sessions, zone \in Changing}

\* The forex week, from Sunday evening to Friday evening.
ForexWeek ==
    [open_day |-> Sunday, open_time |-> 6, close_day |-> 4, close_time |-> 6]

\* A session of the weekend's beginning beside every session of the week.
Pairs ==
    {Weekly(zone, <<[open_day |-> 4, open_time |-> 4, close_day |-> Sunday, close_time |-> 4], s>>,
            {}) : s \in Sessions \cup {[ForexWeek EXCEPT !.close_time = 4]},
                  zone \in Changing \cup {Fixed}}

Continuous == {Always(zone, h) : zone \in Changing \cup {Fixed}, h \in HolidaySets}

NoFinancing ==
    [model |-> "none", funding_interval |-> {}, funding_anchor |-> {}, rollover_time |-> {},
     triple_rollover_day |-> {}]

Swap(time, triple_days) ==
    [NoFinancing EXCEPT !.model = "swap_points", !.rollover_time = {time},
                        !.triple_rollover_day = triple_days]

Periodically(model, interval, anchor) ==
    [NoFinancing EXCEPT !.model = model, !.funding_interval = {interval},
                        !.funding_anchor = {anchor}]

Swaps == {Swap(time, triple) : time \in {5, 6}, triple \in {{}, {2}}}

\* The last ones are refused.
Fundings ==
    {Periodically("funding_rate", interval, anchor) : interval \in {2, 4, 8}, anchor \in {6, 7, 400}}
    \cup {Periodically("borrow_rate", 8, 130), Periodically("borrow_rate", 8, 131),
          Periodically("funding_rate", 6, 7),
          Periodically("none", 4, 7)}

Charged ==
    {[schedule |-> Weekly(zone, <<ForexWeek>>, holidays), financing |-> f] :
        zone \in Changing \cup {Fixed}, holidays \in {{}, {15}}, f \in Swaps}
    \cup {[schedule |-> Always(zone, {}), financing |-> f] : zone \in Changing, f \in Swaps}
    \cup {[schedule |-> Always(zone, {}),       \* a rollover that the clock shows twice
            financing |-> Swap(4, {2})] :
              zone \in {z \in Changing : z.shift < 0}}
    \cup {[schedule |-> Always(Fixed, {}), financing |-> f] : f \in Fundings}

SomeInstruments ==
    Charged \cup {[schedule |-> s, financing |-> NoFinancing] :
                     s \in Singles \cup Pairs \cup Continuous}
=============================================================================
