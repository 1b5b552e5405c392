CONSTANTS
    Epoch = 3
    Range = 48
    InitialValues = {0, 2, 44}
    AdvanceSizes = {2, 5}
    MaxUsed = 6
    MaxFailures = 1
SPECIFICATION Spec
INVARIANT CounterInv
INVARIANT NoReuse
INVARIANT GoodWriteHeals
INVARIANT NoQuickReuse
