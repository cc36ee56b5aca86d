--------------------------- MODULE MCShielderSdk ---------------------------
(* Two devices with one call each, and one device with two. *)
EXTENDS ShielderSdk, TLC

CONSTANTS phone, laptop, a, b, t, u

OneCallEach == a :> phone @@ b :> laptop
PhoneAlone == a :> phone
BothOnPhone == a :> phone @@ b :> phone

\* Devices are swapped together with their calls.
DeviceSymmetry ==
    {calls @@ tokens :
        calls \in {a :> a, a :> b @@ b :> a @@ phone :> laptop @@ laptop :> phone},
        tokens \in Permutations(Tokens)}
CallSymmetry == {calls @@ tokens : calls \in Permutations(Calls), tokens \in Permutations(Tokens)}

\* No action reads what was reported.
WithoutReports == <<log, mined, orphans, storage, lock, call>>
=============================================================================
