------------------------------ MODULE MCReader ------------------------------
EXTENDS ReaderRefinement

Settings(recover, refuse) ==
    [continue_on_error |-> recover, text_only |-> refuse, strict_version |-> refuse]

\* Recovery on and off; and recovery with the two flags that end a read it
\* would otherwise have recovered.
SomeFlags == {Settings(TRUE, FALSE), Settings(FALSE, FALSE), Settings(TRUE, TRUE)}
=============================================================================
