SPECIFICATION Spec
CONSTANTS
    Deployments <- MCDeployments
    Edits <- MCEdits
    MaxEdits = 3
INVARIANTS
    LiveIsDeliberate
    SecretsComeFromOutside
