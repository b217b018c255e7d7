------------------------------ MODULE Pricing ------------------------------
(***************************************************************************)
(* What a space costs: the pricing rules and their endpoints               *)
(* (modules/pricing), the quote wizard's package price                     *)
(* (modules/crm/public_service.py), the table "Detalle de Espacios" that   *)
(* is printed on quotes and slips (modules/booking/order_table_rows.py),   *)
(* and the per-slot price and summary of an event (modules/booking/router, *)
(* event_summary.py).  They are four calculations of one price, and the    *)
(* application shows a customer more than one of them.                     *)
(*                                                                         *)
(* Money is counted in cents and time in half hours: 6 hours are 12.       *)
(***************************************************************************)
EXTENDS Money, FiniteSets

CONSTANTS
    PricedSpace,    \* spaces of the tenant
    Fecha,          \* dates, numbered
    RuleContent,    \* [base6, base12, extra, from, to] records
    FallbackHourly, \* precio_por_hora of a space without a rule
    Carts,          \* the carts (sequences of items) that are priced
    Clerk,          \* staff that edit rules
    Patch,          \* sets of fields that an update sends
    Open            \* effective_to IS NULL

\* A slot of a cart or of an event, in the order the client sent it.
Item == [space : PricedSpace, fecha : Fecha, inicio : 0..48, fin : 0..48]

ASSUME PricingAssumption ==
    /\ Fecha \subseteq Nat
    /\ \A c \in RuleContent : /\ {c.base6, c.base12, c.extra} \subseteq Nat
                              /\ c.from \in Fecha /\ c.to \in Fecha \cup {Open}
    /\ FallbackHourly \in [PricedSpace -> Nat]
    /\ Open \notin Fecha
    /\ Carts \subseteq Seq(Item)
    /\ Patch \subseteq SUBSET {"base6", "base12", "extra", "from", "to"}

\* A row of pricing_rules.
RuleRow == [space : PricedSpace, base6 : Nat, base12 : Nat, extra : Nat,
            from : Fecha, to : Fecha \cup {Open}, created : Nat]

NoRule == [space |-> Open]

VARIABLES
    rules,      \* pricing_rules: contents with their space and created_at
    adding,     \* a rule that passed the check of add_pricing_rule, per clerk
    cart        \* the cart that the wizard prices

pricingVars == <<rules, adding, cart>>

Idle == [content |-> Open]

-----------------------------------------------------------------------------
(* The rules.                                                              *)

RulesOf(s) == {r \in rules : r.space = s}

\* ORDER BY effective_from DESC, created_at DESC, first row.
Latest(R) ==
    IF R = {} THEN NoRule
    ELSE CHOOSE r \in R : \A q \in R :
            r.from > q.from \/ (r.from = q.from /\ r.created >= q.created)

\* get_pricing_rule_by_space with a date
RuleOn(s, d) ==
    Latest({r \in RulesOf(s) : r.from <= d /\ (r.to = Open \/ d <= r.to)})

\* POST /pricing-rules looks for a rule of the space, whatever its dates ...
AddRuleCheck(k, s, c) ==
    /\ adding[k] = Idle
    /\ RulesOf(s) = {}
    /\ adding' = [adding EXCEPT ![k] = [space |-> s, content |-> c]]
    /\ UNCHANGED <<rules, cart>>

\* ... and inserts its own; the table has no unique key to refuse a second.
AddRuleCommit(k) ==
    /\ adding[k] # Idle
    /\ LET c == adding[k].content IN
       rules' = rules \cup
           {[space |-> adding[k].space, base6 |-> c.base6, base12 |-> c.base12,
             extra |-> c.extra, from |-> c.from, to |-> c.to,
             created |-> Cardinality(rules)]}
    /\ adding' = [adding EXCEPT ![k] = Idle]
    /\ UNCHANGED cart

\* PUT /pricing-rules/{space_id} changes the latest rule, in force or not.
UpdateRule(s, c, fields) ==
    /\ RulesOf(s) # {}
    /\ LET old == Latest(RulesOf(s))
           new == [f \in DOMAIN old |-> IF f \in fields THEN c[f] ELSE old[f]]
       IN rules' = (rules \ {old}) \cup {new}
    /\ UNCHANGED <<adding, cart>>

-----------------------------------------------------------------------------
(* Contiguous slots.  The wizard, the table and the event summary each     *)
(* merge them with a loop of their own; the three loops agree.             *)

\* The order of two slots of one space and day: by start, by end, as sent.
Before(c, i, j) ==
    \/ c[i].inicio < c[j].inicio
    \/ c[i].inicio = c[j].inicio /\ c[i].fin < c[j].fin
    \/ c[i].inicio = c[j].inicio /\ c[i].fin = c[j].fin /\ i < j

Earliest(c, S) == CHOOSE i \in S : \A j \in S \ {i} : Before(c, i, j)

LatestIn(c, S) == CHOOSE i \in S : \A j \in S \ {i} : Before(c, j, i)

\* The slots of the space and day of slot i that are sorted before it.
Earlier(c, i) ==
    {j \in DOMAIN c : c[j].space = c[i].space /\ c[j].fecha = c[i].fecha /\ Before(c, j, i)}

\* A slot continues a block if it starts where the one before it ends.
Opens(c, i) ==
    Earlier(c, i) = {} \/ c[LatestIn(c, Earlier(c, i))].fin # c[i].inicio

\* The slot that opened the block of slot i, among those that opened one.
Opener(c, openers, i) == LatestIn(c, openers \cap (Earlier(c, i) \cup {i}))

AllBlocks(c) ==
    LET openers == {i \in DOMAIN c : Opens(c, i)}
    IN {{i \in DOMAIN c : Opener(c, openers, i) = o} : o \in openers}

BlockLength(c, b) == c[LatestIn(c, b)].fin - c[Earliest(c, b)].inicio

-----------------------------------------------------------------------------
(* price_wizard_items                                                      *)

\* Mutant: the tier jump of calculate_hybrid_price, which this one replaced.
PackagePriceTiers(h, r) == IF h <= 12 THEN r.base6 ELSE r.base12

\* _package_price_for_duration: 12 hours first, then 6, then single hours.
PackagePrice(h, r) ==
    LET n12 == IF r.base12 > 0 THEN h \div 24 ELSE 0
        n6 == IF r.base6 > 0 THEN (h - 24 * n12) \div 12 ELSE 0
        left == h - 24 * n12 - 12 * n6
    IN n12 * r.base12 + n6 * r.base6 + RoundDiv(left * r.extra, 2)

\* _allocate_totals: the last share takes what rounding left.
Allocate(total, weights, last) ==
    LET sum == Total(weights)
        part == [i \in DOMAIN weights |-> RoundDiv(total * weights[i], sum)]
    IN [part EXCEPT ![last] = total - SumFunctionOnSet(part, DOMAIN part \ {last})]

\* Otherwise 422: NoPricingRuleError, or ValueError for a block without hours.
Priceable(c) ==
    /\ \A i \in DOMAIN c : RuleOn(c[i].space, c[i].fecha) # NoRule
    /\ \A b \in AllBlocks(c) : BlockLength(c, b) > 0

BlockPrice(c, b) ==
    LET i == Earliest(c, b) IN PackagePrice(BlockLength(c, b), RuleOn(c[i].space, c[i].fecha))

\* _duration_hours
Lengths(c, b) == [i \in b |-> c[i].fin - c[i].inicio]

ItemPrices(c) ==
    LET blocks == AllBlocks(c)
    IN [i \in DOMAIN c |->
          LET b == CHOOSE b \in blocks : i \in b
          IN Allocate(BlockPrice(c, b), Lengths(c, b), LatestIn(c, b))[i]]

\* create_public_quote_request stores this; the preview answers it.
QuoteTotal(c) == Total(ItemPrices(c))

-----------------------------------------------------------------------------
(* build_order_table_rows: catalog prices of a space, segments of a block, *)
(* rows of the table.  Months and weeks never have a price here.           *)

CatalogPrices(s, d) ==
    LET r == RuleOn(s, d) IN
    IF r = NoRule THEN [hora |-> FallbackHourly[s], seis |-> 0, doce |-> 0]
    ELSE [hora |-> r.extra, seis |-> r.base6, doce |-> r.base12]

\* slot_duration_hours
BlockHours(c, b) == IF BlockLength(c, b) <= 0 THEN 2 ELSE BlockLength(c, b)

Some(kind, n) == IF n > 0 THEN {[kind |-> kind, qty |-> n]} ELSE {}

\* decompose_hours_into_packages
PackageSegments(h, p) ==
    LET n12 == IF p.doce > 0 THEN h \div 24 ELSE 0
        n6 == IF p.seis > 0 THEN (h - 24 * n12) \div 12 ELSE 0
        left == h - 24 * n12 - 12 * n6
    IN Some("h12", n12) \cup Some("h6", n6)
       \cup Some("hora", IF p.hora > 0 THEN left ELSE 0)

\* decompose_hours_by_time_only
TimeSegments(h) ==
    Some("h12", h \div 24) \cup Some("h6", (h % 24) \div 12) \cup Some("hora", h % 12)

Segments(h, p) ==
    LET found == IF p.doce > 0 \/ p.seis > 0 THEN PackageSegments(h, p)
                 ELSE TimeSegments(h)
    IN IF found # {} THEN found
       ELSE {[kind |-> "hora", qty |-> IF h > 2 THEN h ELSE 2]}

\* get_segment_unit_price_from_pricing, in pesos
UnitPrice(kind, p) ==
    CASE kind = "h12" -> IF p.doce > 0 THEN Pesos(p.doce)
                         ELSE IF p.seis > 0 THEN Pesos(2 * p.seis) ELSE Pesos(12 * p.hora)
      [] kind = "h6" -> IF p.seis > 0 THEN Pesos(p.seis) ELSE Pesos(6 * p.hora)
      [] kind = "hora" -> Pesos(p.hora)

\* Hours come in halves; packages are counted.
Extend(kind, qty, unit) == IF kind = "hora" THEN RoundDiv(qty * unit, 2) ELSE qty * unit

\* The table is printed at the prices of the first day.
RefDate(c) ==
    CHOOSE d \in Fecha : /\ \E i \in DOMAIN c : c[i].fecha = d
                         /\ \A i \in DOMAIN c : d <= c[i].fecha

\* The segments of one block, before equal rows are added up.
BlockLines(c, b, prices) ==
    {[block |-> b, kind |-> g.kind, qty |-> g.qty, unit |-> UnitPrice(g.kind, prices),
      total |-> Extend(g.kind, g.qty, UnitPrice(g.kind, prices))] :
        g \in Segments(BlockHours(c, b), prices)}

DetailLines(c) ==
    UNION {BlockLines(c, b, CatalogPrices(c[Earliest(c, b)].space, RefDate(c))) :
              b \in AllBlocks(c)}

\* Packages add up across the event, hours within a day.
RowKey(c, l) ==
    LET slot == c[Earliest(c, l.block)]
    IN <<slot.space, l.kind, l.unit, IF l.kind = "hora" THEN slot.fecha ELSE Open>>

\* The row of the lines with one key.
Row(lines) ==
    LET l == CHOOSE l \in lines : TRUE
        qty == Total([m \in lines |-> m.qty])
        total == Total([m \in lines |-> m.total])
    IN [kind |-> l.kind, cantidad |-> qty, total |-> total,
        precio_unitario |-> IF lines = {l} THEN l.unit
                            ELSE RoundDiv(IF l.kind = "hora" THEN 2 * total ELSE total, qty)]

DetailRows(c) ==
    LET lines == DetailLines(c)
        key == [l \in lines |-> RowKey(c, l)]
    IN [k \in {key[l] : l \in lines} |-> Row({l \in lines : key[l] = k})]

\* The subtotal of build_order_context_from_cart and of the pre-quote, in pesos.
DetailSubtotal(c) ==
    LET rows == DetailRows(c) IN Total([k \in DOMAIN rows |-> rows[k].total])

-----------------------------------------------------------------------------
(* The price and the summary of an event: each slot by itself.             *)

\* calculate_hybrid_price: a tier, then extra hours
HybridPrice(h, r) ==
    IF h <= 12 THEN r.base6
    ELSE IF h <= 24 THEN r.base12
    ELSE r.base12 + RoundDiv((h - 24) * r.extra, 2)

SlotPrice(it) == HybridPrice(it.fin - it.inicio, RuleOn(it.space, it.fecha))

\* _compute_event_subtotal answers; otherwise the request fails.
EventPriceable(c) ==
    \A i \in DOMAIN c : c[i].inicio < c[i].fin /\ RuleOn(c[i].space, c[i].fecha) # NoRule

EventSubtotal(c) == Total([i \in DOMAIN c |-> SlotPrice(c[i])])

\* compute_precotizacion_line_items: one line per merged block.
LineItems(c) == [b \in AllBlocks(c) |-> Total([i \in b |-> SlotPrice(c[i])])]

\* build_event_summary_dict, totals.total_hours
SummaryHours(c) ==
    Total([b \in AllBlocks(c) |-> IF BlockLength(c, b) > 0 THEN BlockLength(c, b) ELSE 0])

-----------------------------------------------------------------------------
PricingInit ==
    /\ rules = {}
    /\ adding = [k \in Clerk |-> Idle]
    /\ cart \in Carts

PricingNext ==
    \/ \E k \in Clerk, s \in PricedSpace, c \in RuleContent : AddRuleCheck(k, s, c)
    \/ \E k \in Clerk : AddRuleCommit(k)
    \/ \E s \in PricedSpace, c \in RuleContent :
         \E fields \in Patch : UpdateRule(s, c, fields)

PricingSpec == PricingInit /\ [][PricingNext]_pricingVars

-----------------------------------------------------------------------------
(* Properties, for the cart and the rules of the moment.                   *)

\* Types of the rules and of the cart.
PricingTypeOK ==
    /\ rules \subseteq RuleRow
    /\ \A k \in Clerk : adding[k] = Idle
                        \/ adding[k] \in [space : PricedSpace, content : RuleContent]
    /\ cart \in Seq(Item)

WholePesos ==
    \A r \in rules : r.base6 % 100 = 0 /\ r.base12 % 100 = 0 /\ r.extra % 100 = 0

WholeHours(c) == \A i \in DOMAIN c : c[i].inicio % 2 = 0 /\ c[i].fin % 2 = 0

\* The table takes the rule of the first date for every date.
OneRulePerSpace(c) ==
    \A i, j \in DOMAIN c :
        RuleOn(c[i].space, c[j].fecha) = RuleOn(c[i].space, c[i].fecha)

\* The stored total of a wizard quote is the subtotal of the table that is
\* shown for the same cart ("so bandeja, Detalle de Espacios and submit stay
\* aligned", public_service.py:131): for whole hours, rates in whole pesos,
\* and days that have the same rules.
QuoteMatchesDetail ==
    Priceable(cart) /\ WholeHours(cart) /\ WholePesos /\ OneRulePerSpace(cart) =>
        QuoteTotal(cart) = 100 * DetailSubtotal(cart)

\* How a client cuts an interval into slots does not change what it costs:
\* the packages are found again (public_service.py:96-100).  A slot that
\* overlaps another of its space may get between the pieces.
Disjoint(c) ==
    \A i, j \in DOMAIN c :
        i # j /\ c[i].space = c[j].space /\ c[i].fecha = c[j].fecha =>
            c[i].fin <= c[j].inicio \/ c[j].fin <= c[i].inicio

Cut(c, i, m) ==
    Append([c EXCEPT ![i].fin = m], [c[i] EXCEPT !.inicio = m])

TotalIgnoresSlicing ==
    Priceable(cart) /\ Disjoint(cart) =>
        LET total == QuoteTotal(cart) IN
        \A i \in DOMAIN cart : \A m \in cart[i].inicio + 1 .. cart[i].fin - 1 :
            QuoteTotal(Cut(cart, i, m)) = total

\* The order of the slots in the request changes no slot's price, though the
\* last slot of a block absorbs the rounding.
PriceIgnoresOrder ==
    Priceable(cart) /\ IsInjective(cart) =>
        LET price == ItemPrices(cart)
        IN  \A p \in Bijection(DOMAIN cart, DOMAIN cart) :
                ItemPrices([k \in DOMAIN cart |-> cart[p[k]]]) = [i \in DOMAIN cart |-> price[p[i]]]

\* The prices stored per slot add up to the package of their block, and none is
\* further from its part of it than half a cent for each slot: "last slot
\* absorbs rounding" (public_service.py:73-90).
SharesAddUp ==
    Priceable(cart) =>
        LET share == ItemPrices(cart) IN
        \A b \in AllBlocks(cart) :
            LET price == BlockPrice(cart, b)
                hours == Total(Lengths(cart, b))
                slack == hours * Cardinality(b)
            IN  /\ Total([i \in b |-> share[i]]) = price
                /\ \A i \in b :
                      2 * (hours * share[i] - price * Lengths(cart, b)[i]) \in -slack .. slack

\* A printed row multiplies out: quantity times unit price is its total, also
\* after rows were added up (order_table_rows.py:352-355).
RowsMultiplyOut ==
    WholeHours(cart) =>
        LET rows == DetailRows(cart) IN
        \A k \in DOMAIN rows :
            rows[k].total = Extend(rows[k].kind, rows[k].cantidad, rows[k].precio_unitario)

\* The lines of the pre-quote add up to the subtotal on which the discount of
\* the event was granted, and its hours to those that were reserved, although
\* both are computed from merged blocks (router.py:74, event_summary.py:129
\* and 195 each have their own loop).
EventLinesAgree ==
    EventPriceable(cart) =>
        /\ Total(LineItems(cart)) = EventSubtotal(cart)
        /\ SummaryHours(cart) = Total(Lengths(cart, DOMAIN cart))

\* Every amount computed for one cart agrees with the others
\* (public_service.py, order_table_rows.py, event_summary.py).
PricesAgree ==
    /\ PricingTypeOK
    /\ QuoteMatchesDetail /\ TotalIgnoresSlicing
    /\ SharesAddUp /\ PriceIgnoresOrder
    /\ RowsMultiplyOut /\ EventLinesAgree

=============================================================================
