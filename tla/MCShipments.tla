---------------------------- MODULE MCShipments ----------------------------
(* Instances of Shipments for TLC. *)
EXTENDS Shipments, TLC

CONSTANTS d1, d2, d3

Extraction(t, c) == [type |-> t, content |-> c]

Mix(a, b, c, m) == d1 :> a @@ d2 :> b @@ d3 :> c @@ Manual :> Extraction("rate_con", m)

\* A full set with one document in doubt, a second invoice that disagrees with
\* the first, an extracted rate confirmation beside the manual one, and a
\* document of no required type.
MCExtractions ==
    {Mix(Extraction("invoice", x), Extraction("bol", "ok"), Extraction("pod", "ok"), "ok") :
        x \in {"ok", "bad", "unreadable"}}
    \cup
    {Mix(Extraction("invoice", "ok"), Extraction("invoice", "bad"), Extraction("pod", "bad"), "ok"),
     Mix(Extraction("rate_con", "ok"), Extraction("bol", "ok"), Extraction("other", "ok"), "bad")}

\* Scanners are interchangeable.
Symmetry == Permutations(Scanners)
============================================================================
