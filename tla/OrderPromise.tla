---------------------------- MODULE OrderPromise ----------------------------
(***************************************************************************)
(* What a buyer who paid is promised, without a word of how it is kept:    *)
(* the Stars are asked for once, the money goes back only when there will  *)
(* be no Stars, and the order says what became of it.  An administrator    *)
(* who approves a second purchase takes the promise over.                  *)
(***************************************************************************)
CONSTANT Orders

VARIABLE promise   \* what the buyer has to expect of each order

Stars == {"none", "asked", "given", "refused", "not promised"}
Cash == {"kept", "returning", "returned"}
Says == {"open", "completed", "refunded"}

Promise == [stars: Stars, cash: Cash, says: Says]
NewPromise == [stars |-> "none", cash |-> "kept", says |-> "open"]
TakenOver == [stars |-> "not promised", cash |-> "kept", says |-> "open"]

TypeOK == promise \in [Orders -> Promise]

Kept(o) == promise[o] # TakenOver

Becomes(o, new) == promise' = [promise EXCEPT ![o] = new]

\* Once, and not after the money began to go back.
AskForStars(o) ==
  /\ Kept(o) /\ promise[o].stars = "none" /\ promise[o].cash = "kept"
  /\ Becomes(o, [promise[o] EXCEPT !.stars = "asked"])

StarsDecided(o) ==
  /\ Kept(o) /\ promise[o].stars = "asked"
  /\ \E answer \in {"given", "refused"} : Becomes(o, [promise[o] EXCEPT !.stars = answer])

\* Only when there are no Stars under way; the order may say so at once.
ReturnMoney(o) ==
  /\ Kept(o) /\ promise[o].stars \in {"none", "refused"}
  /\ promise[o].cash # "returned" /\ promise[o].says = "open"
  /\ \E cash \in Cash, says \in {"open", "refunded"} :
       /\ says = "refunded" => cash = "returned"
       /\ Becomes(o, [stars |-> promise[o].stars, cash |-> cash, says |-> says])

Close(o) ==
  /\ Kept(o) /\ promise[o].says = "open"
  /\ \/ /\ promise[o].stars = "given"
        /\ Becomes(o, [promise[o] EXCEPT !.says = "completed"])
     \/ /\ promise[o].cash = "returned"
        /\ Becomes(o, [promise[o] EXCEPT !.says = "refunded"])

TakeOver(o) == Becomes(o, TakenOver)

Init == promise = [o \in Orders |-> NewPromise]

\* A step that changes no promise is a stutter.
Next ==
  /\ promise' # promise
  /\ \E o \in Orders :
       AskForStars(o) \/ StarsDecided(o) \/ ReturnMoney(o) \/ Close(o) \/ TakeOver(o)

Spec == Init /\ [][Next]_promise
=============================================================================
