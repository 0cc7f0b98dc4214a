------------------------------ MODULE MCDomDriver ------------------------------
(* Small instances of DomDriver.                                               *)
EXTENDS DomDriver

CONSTANT s1, s2

OneSession  == {s1}
TwoSessions == {s1, s2}

Ask1(do, n) == [do |-> do, on |-> s1, name |-> n]
Opens(S)    == {[do |-> "open", on |-> s, name |-> <<>>] : s \in S}

\* Steps, an `open` step, an evaluation, and snaps by names that repeat or look
\* like repeated ones.
Mixed == Opens({s1}) \cup {Ask1("snap", <<"dup">>), Ask1("shoot", <<"dup", 2>>),
                           Ask1("click", <<>>), Ask1("goto", <<>>), Ask1("eval", <<>>)}

\* A name that looks like a number, and numbers.
Numbered == Opens({s1}) \cup {Ask1("snap", <<"snap-", 1>>), Ask1("snap", <<>>)}

Pages == Opens({s1}) \cup {Ask1("click", <<>>), Ask1("goto", <<>>), Ask1("snap", <<>>)}

Lives == Opens({s1, s2}) \cup {Ask1("click", <<>>), Ask1("snap", <<>>), Ask1("eval", <<>>),
                               Ask1("close", <<>>)}
================================================================================
