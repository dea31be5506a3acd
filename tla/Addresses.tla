----------------------------- MODULE Addresses -----------------------------
(***************************************************************************)
(* A customer's saved addresses (apps/addresses): which one is the default *)
(* and which have coordinates.                                             *)
(*                                                                         *)
(* Address.save first clears the default of the customer's other addresses *)
(* when the object in hand says it is the default, then writes its own     *)
(* row; outside an import the two are separate statements, and the object  *)
(* may have been loaded long before: geocoding asks a server in between.   *)
(***************************************************************************)
EXTENDS Integers, FiniteSets

CONSTANTS
    Places,      \* address ids of one customer
    Writers,     \* web and task workers
    Nowhere,     \* no address
    MaxSaves     \* bound on the addresses created and changed

ASSUME NowhereAssumption == Nowhere \notin Places

VARIABLES
    place,       \* addresses: the row of each id
    queue,       \* queued geocode_address tasks
    writer,      \* the object each worker has in hand and where it stands
    chosen,      \* the address last saved as the default
    lost,        \* a stale object or a partial failure disturbed the choice
    unlocatable, \* addresses that nobody is going to locate
    saves        \* requests so far

placeVars == <<place, queue>>
choiceVars == <<chosen, lost, unlocatable, saves>>
addressesVars == <<placeVars, writer, choiceVars>>

NoPlace == [exists |-> FALSE, default |-> FALSE, located |-> FALSE]
NoWriter == [pc |-> "idle", kind |-> "", id |-> Nowhere, copy |-> NoPlace, stale |-> FALSE]

AddressesInit ==
    /\ place = [a \in Places |-> NoPlace]
    /\ queue = {}
    /\ writer = [w \in Writers |-> NoWriter]
    /\ chosen = Nowhere /\ lost = FALSE /\ unlocatable = {} /\ saves = 0

Exists(a) == place[a].exists
Defaults == {a \in Places : place[a].default}

\* A write that changes a default leaves the objects the others hold behind.
Outdated(w) ==
    [x \in Writers |-> IF x = w \/ writer[x].pc = "idle" \/ Defaults' = Defaults THEN writer[x]
                         ELSE [writer[x] EXCEPT !.stale = TRUE]]

\* A faulty build that leaves the other defaults alone.
NothingToClear(copy) == FALSE

\* Address.save: "if self.is_default".
ClearsOthers(copy) == copy.default

SavingFrom(w, kind, a, copy) ==
    writer' = [writer EXCEPT ![w] = [pc |-> IF ClearsOthers(copy) THEN "clear" ELSE "write",
                                     kind |-> kind, id |-> a, copy |-> copy, stale |-> FALSE]]

-----------------------------------------------------------------------------
(* Requests of the customer.                                               *)

\* address_list_create
CreateAddress(w, a, default, located) ==
    /\ writer[w] = NoWriter /\ saves < MaxSaves
    /\ ~Exists(a) /\ \A x \in Writers : writer[x].id # a
    /\ SavingFrom(w, "create", a, [exists |-> TRUE, default |-> default, located |-> located])
    /\ saves' = saves + 1
    /\ UNCHANGED <<placeVars, chosen, lost, unlocatable>>

\* address_detail, PATCH: the loaded row with the fields that were sent.
PatchAddress(w, a, default, located) ==
    /\ writer[w] = NoWriter /\ saves < MaxSaves /\ Exists(a)
    /\ SavingFrom(w, "patch", a, [place[a] EXCEPT !.default = default, !.located = located])
    /\ saves' = saves + 1
    /\ UNCHANGED <<placeVars, chosen, lost, unlocatable>>

\* address_detail, DELETE
DeleteAddress(w, a) ==
    /\ writer[w] = NoWriter /\ Exists(a)
    /\ place' = [place EXCEPT ![a] = NoPlace]
    /\ chosen' = IF chosen = a THEN Nowhere ELSE chosen
    /\ writer' = Outdated(w)
    /\ unlocatable' = unlocatable \ {a}
    /\ UNCHANGED <<queue, lost, saves>>

-----------------------------------------------------------------------------
(* Address.save, statement by statement.                                   *)

ClearOthers(w) ==
    LET r == writer[w]
    IN  /\ r.pc = "clear"
        /\ place' = [a \in Places |-> IF a = r.id THEN place[a] ELSE [place[a] EXCEPT !.default = FALSE]]
        /\ writer' = [Outdated(w) EXCEPT ![w].pc = "write"]
        /\ lost' = (lost \/ r.stale)
        /\ UNCHANGED <<queue, chosen, unlocatable, saves>>

\* A create or a PATCH writes every column, even over a row deleted since.
WriteRow(w) ==
    LET r == writer[w]
    IN  /\ r.pc = "write" /\ r.kind \in {"create", "patch"}
        /\ place' = [place EXCEPT ![r.id] = r.copy]
        /\ writer' = [Outdated(w) EXCEPT ![w].pc = "located"]
        /\ chosen' = IF r.copy.default THEN r.id ELSE IF chosen = r.id THEN Nowhere ELSE chosen
        /\ lost' = (r.stale \/ (lost /\ ~r.copy.default))
        /\ UNCHANGED <<queue, unlocatable, saves>>

\* _maybe_geocode
AskGeocode(w) ==
    LET r == writer[w]
    IN  /\ r.pc = "located"
        /\ queue' = IF r.copy.located THEN queue ELSE queue \cup {r.id}
        /\ writer' = [writer EXCEPT ![w] = NoWriter]
        /\ UNCHANGED <<place, choiceVars>>

\* save(update_fields) writes the coordinates alone, if the row is still there.
WriteCoordinates(w) ==
    LET r == writer[w]
    IN  /\ r.pc = "write" /\ r.kind = "locate"
        /\ place' = IF Exists(r.id) THEN [place EXCEPT ![r.id].located = TRUE] ELSE place
        /\ writer' = [writer EXCEPT ![w] = NoWriter]
        /\ UNCHANGED <<queue, choiceVars>>

-----------------------------------------------------------------------------
(* Geocoding.                                                              *)

\* geocode_address: the row is loaded, then a server is asked for its place.
StartGeocode(w, a) ==
    /\ writer[w] = NoWriter /\ a \in queue
    /\ queue' = queue \ {a}
    /\ writer' = IF ~Exists(a) \/ place[a].located THEN writer
                 ELSE [writer EXCEPT ![w] = [pc |-> "asking", kind |-> "locate", id |-> a,
                                             copy |-> place[a], stale |-> FALSE]]
    /\ UNCHANGED <<place, choiceVars>>

\* change_order_address backfills the coordinates it misses, inline.
BackfillForOrder(w, a) ==
    /\ writer[w] = NoWriter /\ saves < MaxSaves
    /\ Exists(a) /\ ~place[a].located
    /\ writer' = [writer EXCEPT ![w] = [pc |-> "asking", kind |-> "locate", id |-> a,
                                        copy |-> place[a], stale |-> FALSE]]
    /\ saves' = saves + 1
    /\ UNCHANGED <<placeVars, chosen, lost, unlocatable>>

Found(w) ==
    /\ writer[w].pc = "asking"
    /\ writer' = [writer EXCEPT ![w].pc = IF ClearsOthers(writer[w].copy) THEN "clear" ELSE "write"]
    /\ UNCHANGED <<placeVars, choiceVars>>

\* Not found, in three attempts, or the worker dies: nobody tries again.
Abandon(w) ==
    LET r == writer[w]
    IN  /\ r # NoWriter
        /\ writer' = [writer EXCEPT ![w] = NoWriter]
        /\ lost' = (lost \/ (r.pc = "write" /\ r.copy.default /\ r.kind # "locate"))
        /\ unlocatable' = IF r.pc \in {"located", "asking", "clear", "write"}
                            THEN unlocatable \cup {r.id} ELSE unlocatable
        /\ UNCHANGED <<placeVars, chosen, saves>>

-----------------------------------------------------------------------------
(* _save_delivery_address, a row of a customers' sheet: one transaction.   *)

\* The default flag is whether the customer has no address yet, so a second
\* import of a customer takes the flag off the address it names.
ImportAddress(w, a, located) ==
    LET first == \A b \in Places : ~Exists(b)
    IN  /\ writer[w] = NoWriter /\ saves < MaxSaves
        /\ Exists(a) \/ \A x \in Writers : writer[x].id # a
        /\ place' = [place EXCEPT ![a] = [exists |-> TRUE, default |-> first,
                                          located |-> located \/ place[a].located]]
        /\ chosen' = IF first THEN a ELSE chosen
        /\ lost' = (lost \/ place[a].default)
        /\ unlocatable' = IF located \/ place[a].located THEN unlocatable ELSE unlocatable \cup {a}
        /\ writer' = Outdated(w)
        /\ saves' = saves + 1
        /\ UNCHANGED queue

AddressesNext ==
    \/ \E w \in Writers, a \in Places, default \in BOOLEAN, located \in BOOLEAN :
          CreateAddress(w, a, default, located) \/ PatchAddress(w, a, default, located)
    \/ \E w \in Writers, a \in Places :
          DeleteAddress(w, a) \/ StartGeocode(w, a) \/ BackfillForOrder(w, a)
    \/ \E w \in Writers, a \in Places, located \in BOOLEAN : ImportAddress(w, a, located)
    \/ \E w \in Writers :
          \/ ClearOthers(w) \/ WriteRow(w) \/ AskGeocode(w) \/ WriteCoordinates(w)
          \/ Found(w) \/ Abandon(w)

AddressesSpec == AddressesInit /\ [][AddressesNext]_addressesVars

-----------------------------------------------------------------------------
(* The default is the address last chosen, alone; with none chosen, or the *)
(* chosen one deleted, there is no default.  Excepted are the moment       *)
(* between the two statements of a save, and what an object loaded before  *)
(* another change of defaults, a save cut short, or a repeated import has  *)
(* disturbed, until the next undisturbed choice.  An address without       *)
(* coordinates is on its way to being located, unless that was given up or *)
(* it came from a sheet without them.                                      *)
DefaultIsChosen ==
    /\ ~lost /\ (\A w \in Writers : ~(writer[w].pc = "write" /\ writer[w].copy.default)) =>
          Defaults = {chosen} \ {Nowhere}
    /\ \A a \in Places : Exists(a) /\ ~place[a].located =>
          \/ a \in queue \cup unlocatable
          \/ \E w \in Writers : writer[w].id = a

=============================================================================
