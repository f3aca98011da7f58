----------------------- MODULE MCIndividualDirectory -----------------------
(***************************************************************************)
(* Instances of IndividualDirectory for TLC.                               *)
(***************************************************************************)
EXTENDS IndividualDirectoryProperties

CONSTANTS x, bob, h, o, A, B

Addr(u, k) == [user |-> u, host |-> k]

MCUser == {x, bob}
MCHost == {h, o}
MCLength == [k \in MCUser \cup MCHost |-> CASE k = x -> 40 [] k = bob -> 3 [] OTHER -> 10]
MCNameOf == [k \in MCUser |-> IF k = x THEN bob ELSE None]
MCHostOf == [k \in {A, B} |-> IF k = A THEN h ELSE o]

\* A is a RING account and B a SIP account, where somebody has the name that x registered.
MCRequest ==
  (({Addr(u, k) : u \in MCUser, k \in {None, h}} \X {A, None}))
    \cup ({Addr(bob, None), Addr(bob, o)} \X {B, None})

\* B with addresses on another server than its own.
SipRequest == {Addr(u, k) : u \in MCUser, k \in {None, h, o}} \X {B, None}

\* With the first requests, the instance is one that the theorems are about.
ASSUME InstanceIsProper ==
  Request = MCRequest => PlainNames /\ UniqueNames /\ ProperRequests(Request)
============================================================================
