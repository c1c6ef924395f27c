\* A thousand cedulas and a couple of hundred access keys, every typo of each.
SPECIFICATION Typing
CONSTANT Typed <- TypedHere
INVARIANTS VerificatorIsTheStandard KeyTyposShow CedulaTyposShow
\* An identifier has an end.
CHECK_DEADLOCK FALSE
