------------------------------ MODULE Messages ------------------------------
(***************************************************************************)
(* Messages between the users of a team, and from the system to a user     *)
(* (messages/*.ts), with the notifications they raise (notifications/*.ts).*)
(*                                                                         *)
(* A root message is inserted without a thread and made its own thread by  *)
(* a second statement; a reply copies the thread of the message it         *)
(* answers, as it was when that was read.  Either can come between.  The   *)
(* folder a message is listed in (archived_at) and whether a notification  *)
(* was read are left out.                                                  *)
(***************************************************************************)
EXTENDS FiniteSets

CONSTANTS
  Person,   \* the users of the team, none deleted
  Mail,     \* message ids, each used once
  Request,  \* requests that can be under way at once
  Null

VARIABLES
  mail,    \* messages
  notice,  \* notifications: who was told of which message
  asking   \* the local variables of each request

vars == <<mail, notice, asking>>

(* from_user_id is Null for the system, thread_id before it is backfilled.  *)
MessageRow == [thread : Mail \cup {Null}, parent : Mail \cup {Null},
            from : Person \cup {Null}, to : Person, seen : {"unread", "read", "deleted"}]
Idle == [at |-> "idle", by |-> Null, on |-> Null, row |-> Null, todo |-> {}]

TypeOK ==
  /\ mail \in [Mail -> MessageRow \cup {Null}]
  /\ notice \in SUBSET (Person \X Mail)
  /\ asking \in [Request ->
       [at : {"idle", "backfill", "reply", "mark", "announce"},
        by : Person \cup {Null}, on : Mail \cup {Null},
        row : MessageRow \cup {Null}, todo : SUBSET Person]]

Init ==
  /\ mail = [m \in Mail |-> Null]
  /\ notice = {}
  /\ asking = [r \in Request |-> Idle]

----------------------------------------------------------------------------
Sent(m) == mail[m] # Null

(* Mutant: whoever knows the id of a message may reply to it.               *)
Anyone(p, row) == row.from # Null

Party(p, row) == p \in {row.from, row.to}
At(r, at) == asking[r].at = at
Answer(r) == asking' = [asking EXCEPT ![r] = Idle]

Insert(m, thread, parent, from, to) ==
  /\ mail[m] = Null
  /\ mail' = [mail EXCEPT ![m] = [thread |-> thread, parent |-> parent,
                                  from |-> from, to |-> to, seen |-> "unread"]]

(* emit: nobody is told of what they did, and a failed insert is logged.    *)
Emit(p, m, actor) ==
  \/ p # actor /\ notice' = notice \cup {<<p, m>>}
  \/ UNCHANGED notice

(* POST /me/messages, insertRootMessage: to somebody else of the team.      *)
Send(r, p, q, m) ==
  /\ At(r, "idle") /\ p # q
  /\ Insert(m, Null, Null, p, q)
  /\ asking' = [asking EXCEPT ![r] = [Idle EXCEPT !.at = "backfill", !.by = p, !.on = m]]
  /\ UNCHANGED notice

(* The owner's broadcast: one system message after the other.               *)
Broadcast(r) ==
  /\ At(r, "idle")
  /\ asking' = [asking EXCEPT ![r] = [Idle EXCEPT !.at = "announce", !.todo = Person]]
  /\ UNCHANGED <<mail, notice>>

SendSystem(r, q, m) ==
  /\ At(r, "announce") /\ q \in asking[r].todo
  /\ Insert(m, Null, Null, Null, q)
  /\ asking' = [asking EXCEPT ![r].at = "backfill", ![r].on = m, ![r].todo = @ \ {q}]
  /\ UNCHANGED notice

Backfill(r) ==
  LET m == asking[r].on IN
  /\ At(r, "backfill")
  /\ mail' = [mail EXCEPT ![m].thread = m]
  /\ Emit(mail[m].to, m, asking[r].by)
  /\ IF asking[r].todo = {}
     THEN Answer(r)
     ELSE asking' = [asking EXCEPT ![r].at = "announce", ![r].on = Null]

(* What a reply reads of the message it answers; it has seen that it is not *)
(* deleted.                                                                 *)
Target(m) == [mail[m] EXCEPT !.parent = Null, !.seen = "unread"]

(* POST /me/messages/:id/reply                                              *)
ReadTarget(r, p, m) ==
  /\ At(r, "idle")
  /\ Sent(m) /\ mail[m].seen # "deleted" /\ Party(p, mail[m]) /\ mail[m].from # Null
  /\ asking' = [asking EXCEPT ![r] = [Idle EXCEPT !.at = "reply", !.by = p, !.on = m, !.row = Target(m)]]
  /\ UNCHANGED <<mail, notice>>

OtherParty(p, row) == IF row.from = p THEN row.to ELSE row.from

InsertReply(r, m) ==
  LET p == asking[r].by
      q == OtherParty(p, asking[r].row) IN
  /\ At(r, "reply")
  /\ Insert(m, asking[r].row.thread, asking[r].on, p, q)
  /\ Emit(q, m, p)
  /\ Answer(r)

(* GET /me/messages/thread/:threadId, for a party to one of its messages:   *)
(* listed first, and then marked as read, whatever has come in between.     *)
Thread(t) == {m \in Mail : Sent(m) /\ mail[m].thread = t}

OpenThread(r, p, t) ==
  /\ At(r, "idle")
  /\ \E m \in Thread(t) : Party(p, mail[m])
  /\ asking' = [asking EXCEPT ![r] = [Idle EXCEPT !.at = "mark", !.by = p, !.on = t]]
  /\ UNCHANGED <<mail, notice>>

Inbox(p) == {m \in Mail : Sent(m) /\ mail[m].to = p}
Read(S) ==
  [m \in Mail |-> IF m \in S /\ mail[m].seen = "unread" THEN [mail[m] EXCEPT !.seen = "read"] ELSE mail[m]]

MarkThread(r) ==
  /\ At(r, "mark")
  /\ mail' = Read(Thread(asking[r].on) \cap Inbox(asking[r].by))
  /\ Answer(r)
  /\ UNCHANGED notice

(* read, read-all and DELETE of one's own: the other party's DELETE does    *)
(* nothing, and whether a deleted message was read is left out.             *)
ReadMail(p, S) ==
  /\ mail' = Read(S \cap Inbox(p))
  /\ UNCHANGED <<notice, asking>>

Delete(m) ==
  /\ Sent(m) /\ mail' = [mail EXCEPT ![m].seen = "deleted"]
  /\ UNCHANGED <<notice, asking>>

(* DELETE /me/notifications/:id                                             *)
DeleteNotice(n) ==
  /\ notice' = notice \ {n}
  /\ UNCHANGED <<mail, asking>>

(* A statement throws, or the process ends.                                 *)
Interrupt(r) ==
  /\ ~At(r, "idle")
  /\ Answer(r)
  /\ UNCHANGED <<mail, notice>>

Next ==
  \/ \E r \in Request :
       \/ \E p, q \in Person, m \in Mail : Send(r, p, q, m)
       \/ Broadcast(r) \/ Backfill(r) \/ MarkThread(r) \/ Interrupt(r)
       \/ \E q \in Person, m \in Mail : SendSystem(r, q, m)
       \/ \E p \in Person, m \in Mail : ReadTarget(r, p, m)
       \/ \E m \in Mail : InsertReply(r, m)
       \/ \E p \in Person, t \in Mail \cup {Null} : OpenThread(r, p, t)
  \/ \E p \in Person :
       \/ ReadMail(p, Mail)
       \/ \E m \in Mail : ReadMail(p, {m})
  \/ \E m \in Mail : Delete(m)
  \/ \E n \in notice : DeleteNotice(n)

Spec == Init /\ [][Next]_vars

----------------------------------------------------------------------------
(* A thread joins the two it was begun between, so that whoever may open it *)
(* is a party to all of it (messages/index.ts:90): no reply, whatever it    *)
(* answered and whenever that was read, brings a third into it or answers   *)
(* the system.  A reply goes between the two of what it answers, into the   *)
(* same thread.  And only the addressee of a message is told of it.         *)
(*                                                                          *)
(* This is said of the threads that have an id.  A reply to a first message *)
(* that was read before its second statement stays in thread 0 for good, as *)
(* does a first message cut off there, and thread 0 is no thread: all of it *)
(* opens to a party to any one of its messages (messages/index.ts:93-102).  *)
ThreadsJoinTwo ==
  /\ \A m, n \in Mail :
       Sent(m) /\ Sent(n) /\ mail[m].thread # Null /\ mail[m].thread = mail[n].thread =>
         /\ {mail[m].from, mail[m].to} = {mail[n].from, mail[n].to}
         /\ mail[m].from # mail[m].to
         /\ mail[m].from = Null => m = n
  /\ \A m \in Mail :
       Sent(m) /\ mail[m].parent # Null =>
         LET p == mail[m].parent IN
         /\ Sent(p) /\ {mail[m].from, mail[m].to} = {mail[p].from, mail[p].to}
         /\ mail[m].thread \in {Null, mail[p].thread}
  /\ \A n \in notice : mail[n[2]].to = n[1]
=============================================================================
