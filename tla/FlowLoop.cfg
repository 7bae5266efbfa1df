\* Weather from 3.5 to 14 degC, any forecast of it, every mode.
CONSTANTS
    Slope <- Mild
    Target <- Flows
    Period = 15
    Modes <- AllModes
SPECIFICATION Spec
INVARIANT
    SettledByNextOuter
PROPERTY
    NeverWorse
