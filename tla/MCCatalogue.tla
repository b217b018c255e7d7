---------------------------- MODULE MCCatalogue ----------------------------
(***************************************************************************)
(* Instances for TLC of what the staff maintains: prices, discount codes,  *)
(* the spaces and their hierarchy, and the accounts.  The modules share no *)
(* state: a behaviour is about one of them.                                *)
(***************************************************************************)
EXTENDS Quoted, Spaces, Accounts, TLC

CONSTANTS s1, s2, k1, k2, d1, b1, b2, b3, ana, eva, h1, h2, h3, p1, p2

VARIABLE about

vars == <<about, pricingVars, discountVars, spacesVars, accountVars>>

Slot(space, fecha, inicio, fin) ==
    [space |-> space, fecha |-> fecha, inicio |-> inicio, fin |-> fin]

Slots == {Slot(s1, 1, 18, 20), Slot(s1, 1, 20, 22), Slot(s1, 1, 22, 32),
          Slot(s1, 1, 20, 44), Slot(s1, 1, 32, 33), Slot(s1, 1, 20, 20),
          Slot(s1, 2, 18, 20), Slot(s2, 1, 18, 20), Slot(s2, 2, 18, 42)}

Joints(T) == {<<t, u>> \in T \X T : t # u /\ t.space = u.space /\ t.fin = u.inicio}

\* One or two slots, and three of which two pairs touch (on one day or not).
SmallCarts ==
    {SetToSeq(S) : S \in {T \in UNION {kSubset(n, Slots) : n \in 1..3} :
        Cardinality(T) = 3 => Cardinality(Joints(T)) >= 2}}

Tariffs == {[base6 |-> 10000, base12 |-> 17500, extra |-> 2500, from |-> 1, to |-> Open],
            [base6 |-> 0, base12 |-> 20000, extra |-> 2300, from |-> 2, to |-> 2]}

Fallback == [s \in PricedSpace |-> 5000]

Prices == {{"base6", "base12", "extra"}}

\* Two customers, one of whom books twice, and one code.
Customers == b1 :> ana @@ b2 :> ana @@ b3 :> eva

OneCode == [q \in Booking |-> d1]

Codes == {[kind |-> "PERCENT", value |-> 1250, minimum |-> 500, limit |-> 1, single |-> FALSE],
          [kind |-> "FIXED", value |-> 2000, minimum |-> 0, limit |-> Unlimited, single |-> TRUE]}

Changes == {[limit |-> 1, active |-> FALSE], [single |-> TRUE, limit |-> 2]}

\* Rooms without a rule are alike, and so are users and members of the staff.
Alike == Permutations({h2, h3}) \cup Permutations({p1, p2}) \cup Permutations({k1, k2})

\* The carts are examined once, and by the prices only.
Init ==
    /\ PricingInit /\ DiscountsInit /\ SpacesInit /\ AccountsInit
    /\ about \in {"prices", "codes", "spaces", "accounts"}
    /\ about # "prices" => cart = <<Slot(s1, 1, 18, 20)>>

Next ==
    \/ about = "prices" /\ PricingNext
         /\ UNCHANGED <<about, discountVars, spacesVars, accountVars>>
    \/ about = "codes" /\ DiscountsNext
         /\ UNCHANGED <<about, pricingVars, spacesVars, accountVars>>
    \/ about = "spaces" /\ SpacesNext
         /\ UNCHANGED <<about, pricingVars, discountVars, accountVars>>
    \/ about = "accounts" /\ AccountsNext
         /\ UNCHANGED <<about, pricingVars, discountVars, spacesVars>>

Spec == Init /\ [][Next]_vars

=============================================================================
