------------------------------- MODULE Quoted -------------------------------
(***************************************************************************)
(* The total a customer is told, where prices and discount codes meet: the *)
(* wizard's advisory discount and PDF (api/public.py), and the PDF of a    *)
(* booked event (booking/router.py).  Each recomputes price and discount   *)
(* from the rules and the code of the moment; nothing is stored.           *)
(***************************************************************************)
EXTENDS Pricing, Discounts

\* validate_public_discount_code: no customer is known.
WizardPreview(row, subtotal) == Preview(row, subtotal, {}, {})

\* build_order_context_from_cart: an invalid code gives no discount.
CartContext(c, row) ==
    LET subtotal == 100 * DetailSubtotal(c)
        discount == IF Accepts(row, subtotal, {}, {}) THEN DiscountAmount(row, subtotal) ELSE 0
    IN [subtotal |-> subtotal, discount |-> discount, total |-> subtotal - discount]

\* download_wizard_precotizacion_pdf: the slots have no price of their own, and
\* spaces without a rule are printed at their hourly price.
WizardPdf(c, row) == CartContext(c, row)

\* Mutant: the code must still be valid when the PDF is printed.
EventContextValidated(c, row) == CartContext(c, row)

\* build_precotizacion_order_context: the code that the event was booked with,
\* whatever its status is now, on the subtotal of the table.
EventContext(c, row) ==
    LET subtotal == 100 * DetailSubtotal(c)
        discount == DiscountAmount(row, subtotal)
    IN [subtotal |-> subtotal, discount |-> discount, total |-> subtotal - discount]

\* reservations_to_cart_items asks for the price of every slot, which fails
\* without a rule for its date; otherwise the prices are not used.
EventPdf(c, row) == IF EventPriceable(c) THEN EventContext(c, row) ELSE "400"

-----------------------------------------------------------------------------
(* Properties.                                                             *)

\* A code in the states a customer may meet it.
CodeRows ==
    {[NewRow(content) EXCEPT !.expired = e, !.used = n] :
        content \in NewCodes, e \in BOOLEAN, n \in 0..1}

\* The advisory PDF of the wizard prints the total that its last step showed,
\* which is the discounted total of the price preview (api/public.py:293 calls
\* the PDF the same table with the same optional discount): for the carts of
\* QuoteMatchesDetail, whatever the state of the code.
PdfShowsPreview ==
    Priceable(cart) /\ WholeHours(cart) /\ WholePesos /\ OneRulePerSpace(cart) =>
        \A row \in CodeRows :
            WizardPdf(cart, row).total = WizardPreview(row, QuoteTotal(cart))

\* Each slot is one package, and touches no other slot.
WholePackages(c) ==
    \A i \in DOMAIN c :
        /\ c[i].fin - c[i].inicio \in {12, 24}
        /\ {i} \in AllBlocks(c)
        /\ LET r == RuleOn(c[i].space, c[i].fecha) IN r # NoRule => r.base6 > 0 /\ r.base12 > 0

\* The PDF of an event recomputes the discount on the subtotal of packages,
\* while the discount was granted on the prices of the slots and is borne by
\* its reservations (order_table_rows.py:524-526).  Where a slot is a package
\* in whole pesos the two agree, and they still do after the code has expired
\* or was used up.
ReprintKeepsDiscount ==
    EventPriceable(cart) /\ WholePackages(cart) /\ WholePesos /\ OneRulePerSpace(cart) =>
        \A content \in NewCodes :
            LET granted == DiscountAmount(NewRow(content), EventSubtotal(cart)) IN
            \A row \in CodeRows : row.value = content.value /\ row.kind = content.kind =>
                /\ EventPdf(cart, row).discount = Total(Shares(granted, Len(cart)))
                /\ EventPdf(cart, row).total = EventSubtotal(cart) - granted

\* A discount is printed as it was shown and as it was granted.
DiscountsHonoured == PdfShowsPreview /\ ReprintKeepsDiscount

=============================================================================
