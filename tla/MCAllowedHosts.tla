--------------------------- MODULE MCAllowedHosts ---------------------------
(* Small instances of AllowedHosts: peers whose names are prefixes of one   *)
(* another, an unrelated one, and a pattern that matches the first two.     *)
EXTENDS AllowedHosts, TLC

CONSTANTS t1, t2, lx, lxplus, cern, pattern, free

MCThread == {t1, t2}
MCHost == {lx, lxplus, cern}
MCEntry == MCHost \cup {pattern}

\* A name also matches every entry that it is a prefix of.
MCCovers == lx :> {lx} @@ lxplus :> {lx, lxplus} @@ cern :> {cern}
            @@ pattern :> {lx, lxplus, pattern}

\* Hosts register themselves; nobody is known yet.
Open == [self |-> TRUE, allowed |-> <<>>, banned |-> <<>>,
         peers |-> {lx, lxplus}, names |-> {lx}]

\* The operator decides: one pattern is allowed, one host banned.
Strict == [self |-> FALSE, allowed |-> <<pattern>>, banned |-> <<cern>>,
           peers |-> MCHost, names |-> MCEntry]

\* The same, and the operator has blanked the first cell of the banned hosts.
Gap == [Strict EXCEPT !.banned = <<free, lx>>]

MCSetups == {Open, Strict}
MCOpen == {Open}
MCGap == {Gap}
=============================================================================
