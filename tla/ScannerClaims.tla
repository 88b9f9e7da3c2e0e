------------------------------ MODULE ScannerClaims ------------------------------
(***************************************************************************)
(* What the tests of the scanners say of them, where the code does         *)
(* something else.                                                         *)
(***************************************************************************)
EXTENDS Scanner

\* ScannerTest, ScanHoldingDelegatesToAppropriateState, and BarcodeUtilTest,
\* HoldingBarcodesContainColon: a code with a colon is a holding.  The bar code of
\* a title the library lists is never taken for a patron's card.
HoldingsAreNoPatrons ==
    \A s \in Scanners, c \in Codes :
        mode[s] = "checkout" /\ c.bar.colon /\ TypeOf[c.bar.cls] # "unlisted"
            => patronId[s] # c.id

==============================================================================
