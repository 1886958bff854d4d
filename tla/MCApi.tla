------------------------------- MODULE MCApi -------------------------------
(* Instance of Api for TLC: one market that ends at time 2. *)
EXTENDS Api, TLC

CONSTANTS m1

MCWindow == [t \in Tiers |-> 2]
MCMax == [t \in Tiers |-> IF t = "global" THEN 2 ELSE 1]
MCEndTime == [m \in {m1} |-> 2]

MCOrder(id, timestamp, signed, body) ==
    [kind |-> "order", id |-> id, timestamp |-> timestamp, signed |-> signed, body |-> body]

\* Good orders signed early and late, one for no market, one with a bad field;
\* patches of the admin to an open and a closed status and for no market, and
\* of others without key, token or the right token; reads with a limiter of
\* their own and without any.
MCMessages ==
    {MCOrder(m1, t, TRUE, "good") : t \in {1, 3}}
    \cup {MCOrder(NoMarket, 1, TRUE, "good"), MCOrder(m1, 1, TRUE, "field")}
    \cup {p \in Patches : IF p.credentials = "admin"
                         THEN p.status = "ACTIVE" \/ (p.id = m1 /\ p.status = "RESOLVED")
                         ELSE p.id = m1 /\ p.status = "ACTIVE"}
    \cup {q \in Reads : q.route # "standard"}

MCSymmetry == Permutations(Requests)
=============================================================================
