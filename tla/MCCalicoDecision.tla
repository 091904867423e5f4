--------------------------- MODULE MCCalicoDecision ---------------------------
(***************************************************************************)
(* Instances of CalicoDecision for TLC: what policies may say, and which   *)
(* profiles the endpoints may have.                                        *)
(***************************************************************************)
EXTENDS CalicoDecision, TLC

CONSTANTS low, high, default

Rule(action, hits) == [action |-> action, hits |-> hits]
Listed(rules) == [types |-> "listed", rules |-> rules]

Allow == Rule("allow", Dest)
Deny == Rule("deny", Dest)
Pass == Rule("pass", Dest)
Miss == Rule("allow", {})

\* Every way the scan of a policy can go: nothing listed, no match, a match
\* that ends the scan, a Pass or a Log that does not, a rule for one resolver.
MCShapes ==
    {Listed(<<Miss>>), Listed(<<Deny>>), Listed(<<Rule("log", Dest), Rule("", Dest)>>),
     Listed(<<Pass, Deny>>), Listed(<<Miss, Rule("deny", {NumDest}), Allow>>),
     [types |-> "absent", rules |-> <<>>]}

MCTiers == {low, high, default}

\* Policies 1, 2, 3 in tiers a, b, c.
In(a, b, c) == 1 :> a @@ 2 :> b @@ 3 :> c

Spread == [tierOf |-> In(low, high, default), order |-> In(10, 10, NoOrder)]
Paired == [tierOf |-> In(default, low, low), order |-> In(10, 20, 10)]
OneTier == [tierOf |-> In(default, default, default), order |-> In(NoOrder, 20, 10)]
Tied == [tierOf |-> In(low, low, high), order |-> In(10, 10, 10)]

\* Tiers that have their orders, tiers that could not be read (both custom tiers
\* then have one order), and a default tier that is not the last.
MCLayouts ==
    {[tierOf |-> l.tierOf, order |-> l.order, tierSpec |-> t] :
        l \in {Spread, Paired, OneTier, Tied},
        t \in {low :> 100 @@ high :> 200 @@ default :> NoOrder,
               low :> NoOrder @@ high :> NoOrder @@ default :> NoOrder,
               low :> 300 @@ high :> NoOrder @@ default :> 200}}

\* A pod without profiles, with kns.* only, and two pods behind an ingress.
MCEndpoints ==
    {<< <<>> >>,
     << << <<Pass, Deny>> >> >>,
     << << <<Miss>>, <<Allow>> >>, << <<Miss>> >> >>}
===============================================================================
