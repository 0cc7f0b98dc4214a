---------------------------- MODULE MCDriverChannel ----------------------------
(* Small instances of DriverChannel.  The ids of the clients lie far apart.    *)
EXTENDS DriverChannel, TLC

CONSTANTS a, b, c, d

OneClient    == {a}
TwoClients   == {a, b}
FourClients  == {a, b, c, d}

Apart == a :> 0 @@ b :> 10 @@ c :> 20 @@ d :> 30
SeedOfOne   == [x \in OneClient |-> Apart[x]]
SeedOfTwo   == [x \in TwoClients |-> Apart[x]]
SeedOfFour  == [x \in FourClients |-> Apart[x]]

Qualified == {FALSE}
Bare      == {TRUE}
================================================================================
