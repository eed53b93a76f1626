------------------------------- MODULE Stays -------------------------------
(***************************************************************************)
(* Reservations of lodging units, their waiting list, the maintenance      *)
(* blocks and the registry of the units.                                   *)
(*                                                                         *)
(* Whoever books, blocks or changes a unit locks its row; whoever adds a   *)
(* guest locks the reservation and its unit.  Plain reads of a transaction *)
(* all see the database of its first plain read (REPEATABLE READ): it is   *)
(* taken after the lock everywhere but in createReservation, which looks   *)
(* at the customer first and therefore is two steps here.  The waiting     *)
(* list by hand and the presence of a guest are a read and a conditional   *)
(* update without a transaction.                                           *)
(*                                                                         *)
(* A period is a set of consecutive nights: checkIn < checkOut' and        *)
(* checkOut > checkIn' is a night in common.                               *)
(***************************************************************************)
EXTENDS Naturals

CONSTANTS
  Units,      \* lodging units
  Nights,     \* nights that can be booked, a..b
  Bookings,   \* rows reservations may take
  Items,      \* rows of the waiting list
  Capacities, \* capacities a unit may be given
  Desks,     \* users of the service desk
  NoRow

ASSUME StaysAssumption ==
  /\ Nights \subseteq Nat /\ \A a, b \in Nights : a .. b \subseteq Nights
  /\ Capacities \subseteq Nat \ {0}

VARIABLES
  unit,      \* units: status and capacity
  booking,   \* reservations, each with at most one companion
  blocked,   \* unit_maintenance_blocks: unit to blocked periods
  item,      \* reservation_waitlist
  desk      \* what each desk has read and is about to write (memory)

staysVars == <<unit, booking, blocked, item, desk>>

Periods == {a .. b : a \in Nights, b \in Nights} \ {{}}

StayStatuses == {"pending", "confirmed", "checked_in", "completed", "cancelled"}
ItemStatuses == {"waiting", "offered", "confirmed", "expired", "cancelled"}

\* canTransitionReservationStatus and canTransitionWaitlistStatus.
StayMoves == [pending    |-> {"pending", "confirmed", "cancelled"},
              confirmed  |-> {"confirmed", "checked_in", "cancelled"},
              checked_in |-> {"checked_in", "completed", "cancelled"},
              completed  |-> {"completed"},
              cancelled  |-> {"cancelled"}]
ItemMoves == [waiting   |-> {"waiting", "offered", "expired", "cancelled"},
              offered   |-> {"offered", "confirmed", "expired", "cancelled"},
              confirmed |-> {"confirmed"},
              expired   |-> {"expired"},
              cancelled |-> {"cancelled"}]

\* Whether there is a companion, and his presence (checkedInAt, checkedOutAt).
Presences == {"none", "away", "in", "out"}

BookingRows == [unit : Units, period : Periods, party : Capacities, status : StayStatuses,
                companion : Presences, offer : Items \cup {NoRow}]
ItemRows == [period : Periods, party : Capacities, status : ItemStatuses, key : BOOLEAN]

ASSUME NoRowIsNoRow == NoRow \notin BookingRows \cup ItemRows \cup Items

Unoccupied == [op |-> "idle"]

DeskStates ==
  {Unoccupied}
  \cup [op : {"book"}, period : Periods, taken : [Units -> SUBSET Nights]]
  \cup [op : {"item"}, on : Items, seen : ItemStatuses, to : ItemStatuses, key : BOOLEAN]
  \cup [op : {"presence"}, on : Bookings, to : {"in", "out"}]

StaysTypeOK ==
  /\ unit \in [Units -> [status : {"active", "maintenance", "inactive"}, capacity : Capacities]]
  /\ booking \in [Bookings -> BookingRows \cup {NoRow}]
  /\ blocked \in [Units -> SUBSET Periods]
  /\ item \in [Items -> ItemRows \cup {NoRow}]
  /\ desk \in [Desks -> DeskStates]

StaysInit ==
  /\ unit \in [Units -> [status : {"active"}, capacity : Capacities]]
  /\ booking = [b \in Bookings |-> NoRow]
  /\ blocked = [u \in Units |-> {}]
  /\ item = [i \in Items |-> NoRow]
  /\ desk = [k \in Desks |-> Unoccupied]

-----------------------------------------------------------------------------
(* What the handlers read.                                                 *)

Booked == {b \in Bookings : booking[b] # NoRow}
RowsOf(u) == {b \in Booked : booking[b].unit = u}
Standing == {"pending", "confirmed", "checked_in"}

\* Nights of a unit a reservation (not cancelled) or a block takes.
Taken(u) == UNION ({booking[b].period : b \in {x \in RowsOf(u) : booking[x].status # "cancelled"}}
                   \cup blocked[u])

Guests(b) == booking[b].party + IF booking[b].companion = "none" THEN 0 ELSE 1

\* Blocks that end when another starts are in conflict: <= and >=.
Touch(p, q) == \E n \in p, m \in q : n \in {m, m + 1} \/ m = n + 1

Row(u, p, party, status, i) ==
  [unit |-> u, period |-> p, party |-> party, status |-> status, companion |-> "none", offer |-> i]

-----------------------------------------------------------------------------
(* Reservations.                                                           *)

\* createReservation reads the customer: its plain reads are of this moment.
BeginBooking(k, p) ==
  /\ desk[k] = Unoccupied
  /\ desk' = [desk EXCEPT ![k] = [op |-> "book", period |-> p, taken |-> [u \in Units |-> Taken(u)]]]
  /\ UNCHANGED <<unit, booking, blocked, item>>

\* It locks the unit, whose row is current, and looks for conflicts among what
\* it read.
Book(k, u, b, party, status) ==
  /\ desk[k].op = "book"
  /\ unit[u].status = "active"
  /\ party <= unit[u].capacity
  /\ desk[k].period \cap desk[k].taken[u] = {}
  /\ booking[b] = NoRow
  /\ booking' = [booking EXCEPT ![b] = Row(u, desk[k].period, party, status, NoRow)]
  /\ desk' = [desk EXCEPT ![k] = Unoccupied]
  /\ UNCHANGED <<unit, blocked, item>>

\* A refusal, of any handler in two steps.
GiveUp(k) ==
  /\ desk[k] # Unoccupied
  /\ desk' = [desk EXCEPT ![k] = Unoccupied]
  /\ UNCHANGED <<unit, booking, blocked, item>>

\* updateReservationStatus, under the lock of the reservation.  The end of the
\* stay takes its guests out; a stay whose points stand is not cancelled
\* (PointsLedger).
MoveStay(b, status) ==
  /\ b \in Booked
  /\ status \in StayMoves[booking[b].status]
  /\ booking' = [booking EXCEPT
       ![b].status = status,
       ![b].companion = IF status = "completed" /\ @ = "in" THEN "out" ELSE @]
  /\ UNCHANGED <<unit, blocked, item, desk>>

\* addReservationGuest: the count of guests and the capacity, both under lock.
AddGuest(b) ==
  /\ b \in Booked
  /\ booking[b].status \in Standing
  /\ booking[b].companion = "none"
  /\ Guests(b) < unit[booking[b].unit].capacity
  /\ booking' = [booking EXCEPT ![b].companion = "away"]
  /\ UNCHANGED <<unit, blocked, item, desk>>

\* updateGuestPresence reads the guest and the status of the stay ...
ReadGuest(k, b, to) ==
  /\ desk[k] = Unoccupied
  /\ b \in Booked
  /\ booking[b].status = "checked_in"
  /\ booking[b].companion = IF to = "in" THEN "away" ELSE "in"
  /\ desk' = [desk EXCEPT ![k] = [op |-> "presence", on |-> b, to |-> to]]
  /\ UNCHANGED <<unit, booking, blocked, item>>

\* ... and writes if the guest is as it read him; the stay may have moved.
MarkGuest(k) ==
  /\ desk[k].op = "presence"
  /\ LET b == desk[k].on
         before == IF desk[k].to = "in" THEN "away" ELSE "in"
     IN  booking' = IF booking[b].companion = before
                    THEN [booking EXCEPT ![b].companion = desk[k].to]
                    ELSE booking
  /\ desk' = [desk EXCEPT ![k] = Unoccupied]
  /\ UNCHANGED <<unit, blocked, item>>

-----------------------------------------------------------------------------
(* The waiting list.                                                       *)

\* joinWaitlist: activeKey (customer, contract, resort and period) is unique.
\* The items of the model are of one customer.
Join(i, p, party) ==
  /\ item[i] = NoRow
  /\ ~\E j \in Items : item[j] # NoRow /\ item[j].period = p /\ item[j].key
  /\ item' = [item EXCEPT ![i] = [period |-> p, party |-> party, status |-> "waiting", key |-> TRUE]]
  /\ UNCHANGED <<unit, booking, blocked, desk>>

\* updateWaitlistStatus reads status and key ...
ReadItem(k, i, to) ==
  /\ desk[k] = Unoccupied
  /\ item[i] # NoRow
  /\ to \in ItemMoves[item[i].status]
  /\ desk' = [desk EXCEPT ![k] = [op |-> "item", on |-> i, seen |-> item[i].status,
                                    to |-> to, key |-> item[i].key]]
  /\ UNCHANGED <<unit, booking, blocked, item>>

\* ... and writes if the status is the one it read.
MoveItem(k) ==
  /\ desk[k].op = "item"
  /\ LET c == desk[k]
     IN  item' = IF item[c.on].status = c.seen
                 THEN [item EXCEPT ![c.on].status = c.to,
                                   ![c.on].key = c.key /\ c.to \in {"waiting", "offered"}]
                 ELSE item
  /\ desk' = [desk EXCEPT ![k] = Unoccupied]
  /\ UNCHANGED <<unit, booking, blocked>>

\* Mutant: the unit is looked up among the active ones, not for maintenance.
ConvertOverBlock(i, u, b) ==
  /\ item[i] # NoRow
  /\ item[i].status = "offered"
  /\ unit[u].status = "active"
  /\ item[i].party <= unit[u].capacity
  /\ \A x \in RowsOf(u) : booking[x].status = "cancelled" \/ booking[x].period \cap item[i].period = {}
  /\ booking[b] = NoRow
  /\ booking' = [booking EXCEPT ![b] = Row(u, item[i].period, item[i].party, "confirmed", i)]
  /\ item' = [item EXCEPT ![i].status = "confirmed"]
  /\ UNCHANGED <<unit, blocked, desk>>

\* convertWaitlistToReservation: locks the item and the unit, then reads.  The
\* key of the item stays.
Convert(i, u, b) ==
  /\ item[i] # NoRow
  /\ item[i].status = "offered"
  /\ unit[u].status = "active"
  /\ item[i].party <= unit[u].capacity
  /\ item[i].period \cap Taken(u) = {}
  /\ booking[b] = NoRow
  /\ booking' = [booking EXCEPT ![b] = Row(u, item[i].period, item[i].party, "confirmed", i)]
  /\ item' = [item EXCEPT ![i].status = "confirmed"]
  /\ UNCHANGED <<unit, blocked, desk>>

-----------------------------------------------------------------------------
(* Units and maintenance.                                                  *)

\* createMaintenanceBlock: no block touches it, no standing reservation is in it.
Block(u, p) ==
  /\ \A q \in blocked[u] : ~Touch(p, q)
  /\ \A b \in RowsOf(u) : booking[b].status \in Standing => booking[b].period \cap p = {}
  /\ blocked' = [blocked EXCEPT ![u] = @ \cup {p}]
  /\ UNCHANGED <<unit, booking, item, desk>>

\* Mutant: only adults and children are counted, not the companions.
UpdateUnitByParty(u, status, capacity) ==
  /\ \A b \in RowsOf(u) : booking[b].status \in Standing => booking[b].party <= capacity
  /\ unit' = [unit EXCEPT ![u] = [status |-> status, capacity |-> capacity]]
  /\ UNCHANGED <<booking, blocked, item, desk>>

\* updateUnit: the capacity holds every party that has not left.
UpdateUnit(u, status, capacity) ==
  /\ \A b \in RowsOf(u) : booking[b].status \in Standing => Guests(b) <= capacity
  /\ unit' = [unit EXCEPT ![u] = [status |-> status, capacity |-> capacity]]
  /\ UNCHANGED <<booking, blocked, item, desk>>

-----------------------------------------------------------------------------
StaysNext ==
  \/ \E k \in Desks :
       \/ \E p \in Periods : BeginBooking(k, p)
       \/ \E u \in Units, b \in Bookings, party \in Capacities, status \in {"pending", "confirmed"} :
            Book(k, u, b, party, status)
       \/ GiveUp(k)
       \/ \E b \in Bookings, to \in {"in", "out"} : ReadGuest(k, b, to)
       \/ MarkGuest(k)
       \/ \E i \in Items, to \in ItemStatuses : ReadItem(k, i, to)
       \/ MoveItem(k)
  \/ \E b \in Bookings, status \in StayStatuses : MoveStay(b, status)
  \/ \E b \in Bookings : AddGuest(b)
  \/ \E i \in Items, p \in Periods, party \in Capacities : Join(i, p, party)
  \/ \E i \in Items, u \in Units, b \in Bookings : Convert(i, u, b)
  \/ \E u \in Units, p \in Periods : Block(u, p)
  \/ \E u \in Units, status \in {"active", "maintenance", "inactive"}, capacity \in Capacities :
       UpdateUnit(u, status, capacity)

StaysSpec == StaysInit /\ [][StaysNext]_staysVars

-----------------------------------------------------------------------------
(* What is checked.                                                        *)

\* Whoever sleeps in a unit fits in it.
PartyFits ==
  \A b \in Booked : booking[b].status \in Standing => Guests(b) <= unit[booking[b].unit].capacity

\* However bookings, companions, offers, maintenance and new capacities of a unit
\* cross each other: the party fits, an offer of the waiting list becomes one
\* reservation, of a unit free of reservations and of maintenance at that moment,
\* and maintenance does not fall on a reservation that stands.
StaysFindTheUnitFree ==
  [][/\ PartyFits'
     /\ \A b \in Bookings : booking[b] = NoRow /\ booking'[b] # NoRow /\ booking'[b].offer # NoRow =>
          /\ booking'[b].period \cap Taken(booking'[b].unit) = {}
          /\ \A c \in Booked : booking[c].offer # booking'[b].offer
     /\ \A u \in Units : \A p \in blocked'[u] \ blocked[u] :
          \A b \in RowsOf(u) : booking[b].status \in Standing => booking[b].period \cap p = {}]_staysVars

\* Two reservations of a unit that are not cancelled have no night in common:
\* the guide says the reservation blocks periods that overlap.
NoDoubleBooking ==
  \A b, c \in Booked :
    /\ b # c
    /\ booking[b].unit = booking[c].unit
    /\ booking[b].status # "cancelled"
    /\ booking[c].status # "cancelled"
    => booking[b].period \cap booking[c].period = {}
=============================================================================
