CONSTANT Users = {u1, u2}
SPECIFICATION FairSpec
INVARIANTS ReadersLearnTheVerdict CallbackComesFirst ReportsAgree
PROPERTIES ImplementsCompletion WaitersReturn
