----------------------------- MODULE MCSession -----------------------------
(***************************************************************************)
(* Instances of Session for TLC.                                           *)
(***************************************************************************)
EXTENDS Session, TLC

CONSTANTS r1, r2, zgw, dme

Read(target, data) == [target |-> target, sid |-> "22", data |-> data]
Probe(target)      == [target |-> target, sid |-> "3E", data |-> "none"]
Clear(target)      == [target |-> target, sid |-> "14", data |-> "none"]

MCSids == {"22", "14", "3E"}

\* Two addresses; at the one the keepalive targets two services and a
\* TesterPresent of a caller's own.
MixedCalls == {Read(zgw, "vin"), Clear(zgw), Probe(zgw), Read(dme, "vin")}

\* Every request competes for the same slot, with the same bytes.
GatewayRead == {Read(zgw, "vin")}

\* Requests are interchangeable: Init chooses their calls.
Pair == Permutations({r1, r2})
=============================================================================
