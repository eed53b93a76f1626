---------------------------- MODULE FractionStock ----------------------------
(***************************************************************************)
(* What the commercial stock promises to whoever sells from it, without    *)
(* holds, deadlines, conferences or processes.  A fraction is free,        *)
(* blocked, under negotiation, reserved for one contract or sold to one    *)
(* contract.  A contract takes fractions once, at its birth, all of them   *)
(* or none; what is still reserved for it is sold in one step; a sold      *)
(* fraction returns only with the end of the contract, together with all   *)
(* that the contract had; and a contract that ended never has any.         *)
(***************************************************************************)
CONSTANTS Contracts, Fractions

VARIABLES
  stock,  \* what each fraction is
  born,   \* contracts that exist or existed
  ended   \* contracts that were cancelled

stockVars == <<stock, born, ended>>

Free == <<"free">>
Blocked == <<"blocked">>
Negotiated == <<"negotiated">>
Reserved(c) == <<"reserved", c>>
Sold(c) == <<"sold", c>>

Place == {Free, Blocked, Negotiated}
           \cup {Reserved(c) : c \in Contracts} \cup {Sold(c) : c \in Contracts}

Of(c) == {f \in Fractions : stock[f] \in {Reserved(c), Sold(c)}}
ReservedFor(c) == {f \in Fractions : stock[f] = Reserved(c)}

Put(F, place) == stock' = [f \in Fractions |-> IF f \in F THEN place ELSE stock[f]]

Init ==
  /\ stock = [f \in Fractions |-> Free]
  /\ born = {}
  /\ ended = {}

(* A contract is born with the fractions F, all reserved or all sold. *)
Take(c, F) ==
  /\ c \notin born
  /\ born' = born \cup {c}
  /\ \A f \in F : stock[f] \in {Free, Negotiated}
  /\ Put(F, Reserved(c)) \/ Put(F, Sold(c))
  /\ UNCHANGED ended

(* A contract recorded as already cancelled. *)
BornEnded(c) ==
  /\ c \notin born
  /\ born' = born \cup {c}
  /\ ended' = ended \cup {c}
  /\ UNCHANGED stock

(* The conferences complete the sale of what is reserved. *)
Sell(c) ==
  /\ ReservedFor(c) # {}
  /\ c \notin ended
  /\ Put(ReservedFor(c), Sold(c))
  /\ UNCHANGED <<born, ended>>

(* Reservations and negotiations over F come to nothing. *)
GiveBack(F) ==
  /\ \A f \in F : stock[f] = Negotiated \/ \E c \in Contracts : stock[f] = Reserved(c)
  /\ Put(F, Free)
  /\ UNCHANGED <<born, ended>>

(* The contract ends with all it has. *)
End(c) ==
  /\ c \in born \ ended
  /\ ended' = ended \cup {c}
  /\ Put(Of(c), Free)
  /\ UNCHANGED born

Move(f, from, to) ==
  /\ stock[f] = from
  /\ stock' = [stock EXCEPT ![f] = to]
  /\ UNCHANGED <<born, ended>>

Next ==
  \/ \E c \in Contracts, F \in SUBSET Fractions : Take(c, F)
  \/ \E c \in Contracts : BornEnded(c)
  \/ \E c \in Contracts : Sell(c)
  \/ \E F \in SUBSET Fractions : GiveBack(F)
  \/ \E c \in Contracts : End(c)
  \/ \E f \in Fractions :
       \/ Move(f, Free, Negotiated)
       \/ Move(f, Free, Blocked)
       \/ Move(f, Blocked, Free)

Spec == Init /\ [][Next]_stockVars

=============================================================================
