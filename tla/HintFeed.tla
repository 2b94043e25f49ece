------------------------------- MODULE HintFeed -------------------------------
(* What the change-event pipeline promises, without locks, workers or messages:
   per binding an append-only sequence of hints, a receiver that owns a gapless
   prefix of it, and retention that removes only what a connected receiver has
   applied.                                                                   *)
EXTENDS Integers

CONSTANTS Bindings, Connections, NoOne, MaxId

VARIABLES
  hints,      \* per binding, the ids ever published
  retained,   \* per binding, the ids still in the outbox
  attached,   \* per binding, the connection it is sent to, or NoOne
  confirmed,  \* per binding, the watermark the sender relies on
  home,       \* per connection, its binding, or NoOne before it exists
  held,       \* per connection, the ids the receiver stores
  done        \* per connection, the applied watermark

vars == <<hints, retained, attached, confirmed, home, held, done>>

UpTo(S, n) == {i \in S : i <= n}

Init ==
  /\ hints = [b \in Bindings |-> {}] /\ retained = hints
  /\ attached = [b \in Bindings |-> NoOne] /\ confirmed = [b \in Bindings |-> 0]
  /\ home = [c \in Connections |-> NoOne]
  /\ held = [c \in Connections |-> {}] /\ done = [c \in Connections |-> 0]

(* A hint's id lies above every id published before it, in any binding. *)
Publish(b, i) ==
  /\ \A x \in Bindings : \A j \in hints[x] : j < i
  /\ hints' = [hints EXCEPT ![b] = @ \cup {i}]
  /\ retained' = [retained EXCEPT ![b] = @ \cup {i}]
  /\ UNCHANGED <<attached, confirmed, home, held, done>>

Open(c, b) ==
  /\ home[c] = NoOne
  /\ home' = [home EXCEPT ![c] = b]
  /\ UNCHANGED <<hints, retained, attached, confirmed, held, done>>

(* A connection may start only while the whole history is still there. *)
Attach(b, c) ==
  /\ attached[b] = NoOne /\ home[c] = b
  /\ retained[b] = hints[b]
  /\ attached' = [attached EXCEPT ![b] = c]
  /\ UNCHANGED <<hints, retained, confirmed, home, held, done>>
Detach(b) ==
  /\ attached' = [attached EXCEPT ![b] = NoOne]
  /\ confirmed' = [confirmed EXCEPT ![b] = 0]
  /\ UNCHANGED <<hints, retained, home, held, done>>

(* The receiver's store grows to a longer prefix of its binding's hints. *)
Receive(c, n) ==
  /\ home[c] # NoOne
  /\ held[c] \subseteq UpTo(hints[home[c]], n)
  /\ held' = [held EXCEPT ![c] = UpTo(hints[home[c]], n)]
  /\ UNCHANGED <<hints, retained, attached, confirmed, home, done>>
Confirm(b, n) ==
  /\ attached[b] # NoOne
  /\ n > confirmed[b]
  /\ UpTo(hints[b], n) \subseteq held[attached[b]]
  /\ confirmed' = [confirmed EXCEPT ![b] = n]
  /\ UNCHANGED <<hints, retained, attached, home, held, done>>
Apply(c, n) ==
  /\ n \in held[c] /\ n > done[c]
  /\ done' = [done EXCEPT ![c] = n]
  /\ UNCHANGED <<hints, retained, attached, confirmed, home, held>>

Retire(b, n) ==
  /\ attached[b] # NoOne => n <= done[attached[b]] /\ n <= confirmed[b]
  /\ retained' = [retained EXCEPT ![b] = @ \ UpTo(@, n)]
  /\ UNCHANGED <<hints, attached, confirmed, home, held, done>>

Next ==
  \/ \E b \in Bindings :
       \/ \E i \in 1..MaxId : Publish(b, i) \/ Confirm(b, i) \/ Retire(b, i)
       \/ \E c \in Connections : Open(c, b) \/ Attach(b, c)
       \/ Detach(b)
  \/ \E c \in Connections : \E n \in 1..MaxId : Receive(c, n) \/ Apply(c, n)

Spec == Init /\ [][Next]_vars
=============================================================================
