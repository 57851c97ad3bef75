------------------------------- MODULE MCOffice -------------------------------
(***************************************************************************)
(* Fines, invoices and the login by QR code, on small instances.  They     *)
(* share no state: a behaviour is one of the component that part names,    *)
(* while the others stay as they begin.                                    *)
(***************************************************************************)
EXTENDS Fines, Invoices, QrLogin, TLC

\* On either side of the least debt that is fined.
MCRefBalances == {-499, -500}
MCMinBalance == -100

VARIABLE part

Parts == {"fines", "invoices", "login"}

officeVars == <<finesVars, invoicesVars, qrVars, part>>

OfficeInit == part \in Parts /\ FinesInit /\ InvoicesInit /\ QrInit

OfficeNext ==
    \/ /\ part = "fines" /\ FinesNext
       /\ UNCHANGED <<invoicesVars, qrVars, part>>
    \/ /\ part = "invoices" /\ InvoicesNext
       /\ UNCHANGED <<finesVars, qrVars, part>>
    \/ /\ part = "login" /\ QrNext
       /\ UNCHANGED <<finesVars, invoicesVars, part>>

OfficeSpec == OfficeInit /\ [][OfficeNext]_officeVars

\* One exception at a time: a group of fines with overlapping calls or a crash,
\* an invoice with overlapping calls or a deletion without rows, a login with
\* overlapping calls or without its token, and then three calls and messages.
\* Then no more than one waiver stands, and after a crash fines are left to one
\* call at a time.
Bound ==
    /\ Cardinality(contended) + fineFaults <= 1
    /\ contended # {} => Cardinality({w \in Waivers : waivers[w] # None}) <= 1
    /\ fineFaults > 0 => Cardinality({d \in Desks : Busy(d)}) <= 1
    /\ Cardinality(shared) + Cardinality(crossed) + Cardinality(bare) <= 1
    /\ Cardinality(raced) + Cardinality(missed \ {Nobody}) <= 1
    /\ Len(asks) + Len(tokens) + Cardinality(replies) +
           Cardinality({t \in Phones : phone[t] # Quiet}) <= 3

\* The components are given the same model values, so that one permutation does
\* for all of them.
Symmetry ==
    Permutations(Groups) \cup Permutations(FineIds) \cup
    Permutations(Waivers) \cup Permutations(Desks)

\* The variables of the components have the values they are meant to have.
OfficeTypeOK == FinesTypeOK /\ InvoicesTypeOK /\ QrTypeOK
=============================================================================
