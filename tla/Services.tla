------------------------------ MODULE Services ------------------------------
(***************************************************************************)
(* The components around the ordering core, side by side.  They share no   *)
(* table that matters to their properties, so one of them moves at a time: *)
(* scene says which, for the whole behaviour.                              *)
(***************************************************************************)
EXTENDS Tickets, ProductPages, Invoices, Accounts, Addresses, RiderDay, Cart, Zones

CONSTANT Scenes   \* the components that move

ASSUME ScenesAssumption ==
    Scenes \subseteq {"tickets", "pages", "invoices", "accounts", "addresses", "riders", "cart", "zones"}

VARIABLE scene

servicesVars ==
    <<scene, ticketsVars, pageVars, invoicesVars, accountsVars, addressesVars,
      riderVars, allCartVars, zonesVars>>

\* A component that does not move starts from any one of its initial states.
ServicesInit ==
    /\ scene \in Scenes
    /\ TicketsInit /\ PagesInit /\ InvoicesInit /\ AccountsInit
    /\ AddressesInit /\ RiderInit /\ CartInit /\ ZonesInit
    /\ scene # "cart" => coupon = CHOOSE c \in Coupons : TRUE
    /\ scene # "invoices" => total = CHOOSE f \in [Bills -> Totals] : TRUE

ServicesNext ==
    \/ /\ scene = "tickets" /\ TicketsNext
       /\ UNCHANGED <<scene, pageVars, invoicesVars, accountsVars, addressesVars, riderVars, allCartVars, zonesVars>>
    \/ /\ scene = "pages" /\ PagesNext
       /\ UNCHANGED <<scene, ticketsVars, invoicesVars, accountsVars, addressesVars, riderVars, allCartVars, zonesVars>>
    \/ /\ scene = "invoices" /\ InvoicesNext
       /\ UNCHANGED <<scene, ticketsVars, pageVars, accountsVars, addressesVars, riderVars, allCartVars, zonesVars>>
    \/ /\ scene = "accounts" /\ AccountsNext
       /\ UNCHANGED <<scene, ticketsVars, pageVars, invoicesVars, addressesVars, riderVars, allCartVars, zonesVars>>
    \/ /\ scene = "addresses" /\ AddressesNext
       /\ UNCHANGED <<scene, ticketsVars, pageVars, invoicesVars, accountsVars, riderVars, allCartVars, zonesVars>>
    \/ /\ scene = "riders" /\ RiderNext
       /\ UNCHANGED <<scene, ticketsVars, pageVars, invoicesVars, accountsVars, addressesVars, allCartVars, zonesVars>>
    \/ /\ scene = "cart" /\ CartNext
       /\ UNCHANGED <<scene, ticketsVars, pageVars, invoicesVars, accountsVars, addressesVars, riderVars, zonesVars>>
    \/ /\ scene = "zones" /\ ZonesNext
       /\ UNCHANGED <<scene, ticketsVars, pageVars, invoicesVars, accountsVars, addressesVars, riderVars, allCartVars>>

ServicesSpec == ServicesInit /\ [][ServicesNext]_servicesVars

=============================================================================
