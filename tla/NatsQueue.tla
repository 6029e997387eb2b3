------------------------------ MODULE NatsQueue ------------------------------
(***************************************************************************)
(* NatsMessageQueue of pkg/mq/nats.go: subscriptions by key, messages      *)
(* published with and without a request for a reply, and what the          *)
(* callbacks of the subscriptions do. NATS is external: it hands a message *)
(* to every plain subscription of its subject and to one member of each    *)
(* queue group; a subscription's messages are handled one after the other, *)
(* and those that wait are dropped when it ends.                           *)
(***************************************************************************)
EXTENDS Integers, Sequences

CONSTANTS
  Subject,   \* subjects, strings
  Group,     \* queue groups, strings
  Plain,     \* the group of a subscription without one
  MaxSubs,   \* bound: subscriptions made
  MaxMsgs    \* bound: messages published

Sub == 1..MaxSubs
Msg == 1..MaxMsgs

\* fmt.Sprintf("%s:%s", subject, queue), or the subject alone.
KeyOf(subject, group) == IF group = Plain THEN subject ELSE subject \o ":" \o group

Keys == {KeyOf(s, g) : s \in Subject, g \in Group \cup {Plain}}

VARIABLES
  subscriptions,  \* Keys -> subscription, 0 for none
  subs,           \* Sub -> its subject and group
  made,           \* subscriptions made so far
  active,         \* subscriptions that NATS serves
  connected,      \* the connection is open
  inbox,          \* Sub -> messages that wait for its callback
  handling,       \* Sub -> message in its handler, 0 for none
  msgs,           \* Msg -> "new", "sent", or for requests "asked", "replied", "failed"
  handled,        \* history: pairs of subscription and message whose handler has ended
  acked           \* requests that a callback has answered

vars == <<subscriptions, subs, made, active, connected, inbox, handling, msgs,
          handled, acked>>
subVars == <<subscriptions, subs, made, active, connected>>

TypeOK ==
  /\ subscriptions \in [Keys -> 0..made] /\ made \in 0..MaxSubs
  /\ subs \in [Sub -> [subject : Subject, group : Group \cup {Plain}]]
  /\ active \in SUBSET (1..made) /\ connected \in BOOLEAN
  /\ inbox \in [Sub -> Seq(Msg)] /\ handling \in [Sub -> 0..MaxMsgs]
  /\ msgs \in [Msg -> {"new", "sent", "asked", "replied", "failed"}]
  /\ handled \in SUBSET (Sub \X Msg) /\ acked \in SUBSET Msg

Init ==
  /\ subscriptions = [k \in Keys |-> 0]
  /\ subs \in [Sub -> [subject : Subject, group : Group \cup {Plain}]]
  /\ made = 0 /\ active = {} /\ connected = TRUE
  /\ inbox = [s \in Sub |-> <<>>] /\ handling = [s \in Sub |-> 0]
  /\ msgs = [m \in Msg |-> "new"] /\ handled = {} /\ acked = {}

(***************************************************************************)
(* Subscriptions                                                           *)
(***************************************************************************)

\* The next subscription, whose subject and group were fixed at the start.
Add(key) ==
  /\ made' = made + 1
  /\ active' = active \cup {made'}
  /\ subscriptions' = [subscriptions EXCEPT ![key] = made']
  /\ UNCHANGED <<subs, connected, inbox, handling, msgs, handled, acked>>

Upcoming == subs[made + 1]

\* Mutant: Subscribe does not look whether there is a subscription.
SubscribeAgain ==
  /\ made < MaxSubs /\ connected /\ Upcoming.group = Plain
  /\ Add(KeyOf(Upcoming.subject, Plain))

\* A key that is taken is refused; NATS refuses when the connection is closed.
Subscribe ==
  /\ made < MaxSubs /\ connected /\ Upcoming.group = Plain
  /\ subscriptions[KeyOf(Upcoming.subject, Plain)] = 0
  /\ Add(KeyOf(Upcoming.subject, Plain))

QueueSubscribe ==
  /\ made < MaxSubs /\ connected /\ Upcoming.group # Plain
  /\ subscriptions[KeyOf(Upcoming.subject, Upcoming.group)] = 0
  /\ Add(KeyOf(Upcoming.subject, Upcoming.group))

Ended(ended) ==
  /\ active' = active \ ended
  /\ inbox' = [s \in Sub |-> IF s \in ended THEN <<>> ELSE inbox[s]]

\* The name is used as a key: a queue subscription is found under both its names.
Unsubscribe(key) ==
  /\ subscriptions[key] # 0
  /\ Ended({subscriptions[key]})
  /\ subscriptions' = [subscriptions EXCEPT ![key] = 0]
  /\ UNCHANGED <<subs, made, connected, handling, msgs, handled, acked>>

Close ==
  /\ connected
  /\ connected' = FALSE
  /\ Ended(active)
  /\ subscriptions' = [k \in Keys |-> 0]
  /\ UNCHANGED <<subs, made, handling, msgs, handled, acked>>

(***************************************************************************)
(* Messages                                                                *)
(***************************************************************************)

\* NATS: the plain subscriptions of the subject and one member of each group.
Receivers(subject) ==
  LET of(g) == {s \in active : subs[s] = [subject |-> subject, group |-> g]}
  IN  {of(Plain) \cup chosen :
         chosen \in {c \in SUBSET active :
                       /\ c \subseteq UNION {of(g) : g \in Group}
                       /\ \A g \in Group : of(g) # {} => \E s \in of(g) : c \cap of(g) = {s}}}

Send(m, subject, state) ==
  /\ connected /\ msgs[m] = "new"
  /\ \A n \in Msg : n < m => msgs[n] # "new"
  /\ msgs' = [msgs EXCEPT ![m] = state]
  /\ \E receivers \in Receivers(subject) :
       inbox' = [s \in Sub |-> IF s \in receivers THEN Append(inbox[s], m) ELSE inbox[s]]
  /\ UNCHANGED <<subVars, handling, handled, acked>>

Publish(m, subject) == Send(m, subject, "sent")
PublishWithReply(m, subject) == Send(m, subject, "asked")

\* The request ends with the first reply, or with an error: no responder, a closed
\* connection, or the timeout.
ReplyArrives(m) ==
  /\ msgs[m] = "asked" /\ m \in acked
  /\ msgs' = [msgs EXCEPT ![m] = "replied"]
  /\ UNCHANGED <<subVars, inbox, handling, handled, acked>>

RequestFails(m) ==
  /\ msgs[m] = "asked"
  /\ msgs' = [msgs EXCEPT ![m] = "failed"]
  /\ UNCHANGED <<subVars, inbox, handling, handled, acked>>

CallbackBegins(s) ==
  /\ handling[s] = 0 /\ inbox[s] # <<>>
  /\ inbox' = [inbox EXCEPT ![s] = Tail(@)]
  /\ handling' = [handling EXCEPT ![s] = Head(inbox[s])]
  /\ UNCHANGED <<subVars, msgs, handled, acked>>

\* The handler returns, with an error or without; a request gets its ACK either way,
\* as far as the connection is open.
CallbackEnds(s) ==
  /\ handling[s] # 0
  /\ handling' = [handling EXCEPT ![s] = 0]
  /\ handled' = handled \cup {<<s, handling[s]>>}
  /\ acked' = IF connected /\ msgs[handling[s]] # "sent"
              THEN acked \cup {handling[s]}
              ELSE acked
  /\ UNCHANGED <<subVars, inbox, msgs>>

Next ==
  \/ Subscribe \/ QueueSubscribe \/ Close
  \/ \E k \in Keys : Unsubscribe(k)
  \/ \E m \in Msg :
       \/ \E s \in Subject : Publish(m, s) \/ PublishWithReply(m, s)
       \/ ReplyArrives(m) \/ RequestFails(m)
  \/ \E s \in Sub : CallbackBegins(s) \/ CallbackEnds(s)

Spec == Init /\ [][Next]_vars

(***************************************************************************)
(* Properties                                                              *)
(***************************************************************************)

\* Whatever is subscribed and unsubscribed meanwhile, a message is handled at most once
\* for its subject and once for each queue group, and a request that is answered has been
\* handled to the end.
HandledOnceThenAcked ==
  /\ \A s, t \in Sub, m \in Msg :
       <<s, m>> \in handled /\ <<t, m>> \in handled /\ subs[s] = subs[t] => s = t
  /\ \A m \in Msg : msgs[m] = "replied" => \E s \in Sub : <<s, m>> \in handled
===============================================================================
