--------------------------------- MODULE Mail ---------------------------------
(***************************************************************************)
(* A step of the smtp block and a step of the imap block that looks for    *)
(* what it sent: internal/block/smtp/block.go and internal/block/imap/     *)
(* block.go, Execute, each inside a retry.                                 *)
(*                                                                         *)
(* Both servers are external: they may refuse a command, the connection    *)
(* may be lost before or after a command was applied, and an accepted mail *)
(* reaches the mailbox later, among mails of others.  A mail is its        *)
(* Message-Id; the i-th attempt to send generates one of its own.  FETCH   *)
(* RFC822 sets \Seen on the server, whether or not the mail matches.  Other *)
(* clients may have done anything to the mailbox before the two steps, and *)
(* do nothing to it meanwhile.                                             *)
(***************************************************************************)
EXTENDS Naturals, Sequences, Functions

CONSTANTS
    Sent,           \* the Message-Ids generated, in the order of attempts
    Readable,       \* mails of others
    Broken,         \* mails of others that parseRFC822 cannot read
    NoMail,
    Boxes,          \* the mailboxes there may be before the two steps
    ImapConfigs,
    ImapAttempts    \* the budget of the retry around the imap step

Foreign == Readable \cup Broken
Mails == Range(Sent) \cup Foreign

ValidBoxes ==
    {box \in [arrived : Seq(Foreign), seen : SUBSET Foreign, flagged : SUBSET Foreign] :
        /\ IsInjective(box.arrived)
        /\ box.seen \cup box.flagged \subseteq Range(box.arrived)}

(* What the control of Execute reads of a valid configuration: byId is      *)
(* criteria.message_id given the exported message_id; the other criteria    *)
(* hold for every mail of Sent and for those of others in matching; waits   *)
(* is timeout_ms > 0.                                                       *)
ValidImapConfigs ==
    [byId : BOOLEAN, matching : SUBSET Readable, unseenOnly : BOOLEAN,
     latest : BOOLEAN, waits : BOOLEAN, markAsSeen : BOOLEAN, delete : BOOLEAN]

ASSUME MailAssumption ==
    /\ Sent \in Seq(Range(Sent)) /\ IsInjective(Sent) /\ Sent # <<>>
    /\ Range(Sent) \cap Foreign = {} /\ NoMail \notin Mails
    /\ Readable \cap Broken = {}
    /\ Boxes \subseteq ValidBoxes
    /\ ImapConfigs \subseteq ValidImapConfigs
    /\ ImapAttempts \in Nat \ {0}

----------------------------------------------------------------------------
VARIABLES
    spc,        \* "session" until the message is written
    sattempt,
    phase,      \* the command of the session about to be sent
    failures,   \* where each failed attempt to send failed
    accepted,   \* mails the SMTP server took over
    exported,   \* the message_id exported, or NoMail
    initial,    \* history: the mailbox before the two steps
    arrived,    \* the mailbox: every mail that ever came, in order
    seen, flagged, gone,    \* \Seen, \Deleted, and expunged
    imap,       \* the configuration of the imap step
    ipc, iattempt,
    passed,     \* the deadline is behind
    searched,   \* history: what the mailbox held at the last SEARCH
    given,      \* the mails the last SEARCH gave
    candidates, \* those of them that were not fetched yet
    current,    \* the mail found
    result,     \* what Execute answered last
    taken       \* history: mails found, or whose FETCH gave an error

sendVars == <<spc, sattempt, phase, failures, accepted, exported>>
boxVars == <<initial, arrived, seen, flagged, gone>>
locals == <<searched, given, candidates, current>>
findVars == <<imap, ipc, iattempt, passed, locals, result, taken>>
vars == <<sendVars, boxVars, findVars>>

(* What is sent in order, each only when the one before was accepted:       *)
(* dialSMTPClient with HELLO, STARTTLS and AUTH, then MAIL with RCPT for    *)
(* every recipient, then DATA with the text.                                *)
Session == <<"dial", "envelope", "data">>

Commands == Range(Session) \cup {"finalize", "quit"}

TypeOK ==
    /\ imap \in ImapConfigs
    /\ spc \in {"session", "finalize", "accepted", "quit", "failed", "returned"}
    /\ sattempt \in 1..Len(Sent)
    /\ phase \in 1..Len(Session)
    /\ failures \in Seq(Commands)
    /\ accepted \subseteq Range(Sent)
    /\ exported \in Range(Sent) \cup {NoMail}
    /\ initial \in Boxes
    /\ arrived \in Seq(Mails) /\ IsInjective(arrived)
    /\ UNION {seen, flagged, gone, searched} \subseteq Range(arrived)
    /\ candidates \subseteq given /\ given \subseteq searched
    /\ ipc \in {"idle", "search", "fetch", "mark", "delete", "expunge", "found",
                "waiting", "failed", "returned", "connect"}
    /\ iattempt \in 1..ImapAttempts
    /\ passed \in BOOLEAN
    /\ current \in Range(arrived) \cup {NoMail}
    /\ result \in {"none", "found", "not found", "error"}
    /\ taken \subseteq seen

Init ==
    /\ spc = "session" /\ sattempt = 1 /\ phase = 1
    /\ failures = <<>> /\ accepted = {} /\ exported = NoMail
    /\ initial \in Boxes
    /\ arrived = initial.arrived /\ seen = initial.seen
    /\ flagged = initial.flagged /\ gone = {}
    /\ imap \in ImapConfigs
    /\ ipc = "idle" /\ iattempt = 1 /\ passed = FALSE
    /\ searched = {} /\ given = {} /\ candidates = {} /\ current = NoMail
    /\ result = "none" /\ taken = {}

----------------------------------------------------------------------------
(* The smtp step. *)
Message == Sent[sattempt]

SendFails(where) ==
    /\ spc' = "failed"
    /\ failures' = Append(failures, where)
    /\ phase' = 1
    /\ UNCHANGED <<sattempt, accepted, exported, boxVars, findVars>>

SessionCommand ==
    /\ spc = "session"
    /\ IF phase < Len(Session)
       THEN phase' = phase + 1 /\ UNCHANGED spc
       ELSE spc' = "finalize" /\ UNCHANGED phase
    /\ UNCHANGED <<sattempt, failures, accepted, exported, boxVars, findVars>>

(* Refused, unsupported or lost; the connection is closed. *)
SessionFails == spc = "session" /\ SendFails(Session[phase])

(* External: the server takes the message over at the end of its text. *)
ServerAccepts ==
    /\ spc = "finalize"
    /\ accepted' = accepted \cup {Message}
    /\ spc' = "accepted"
    /\ UNCHANGED <<sattempt, phase, failures, exported, boxVars, findVars>>

FinalizeSucceeds ==
    /\ spc = "accepted"
    /\ spc' = "quit"
    /\ UNCHANGED <<sattempt, phase, failures, accepted, exported, boxVars, findVars>>

(* Mutant: the error of writer.Close is ignored. *)
FinalizeFailsUnnoticed ==
    /\ spc \in {"finalize", "accepted"}
    /\ spc' = "quit"
    /\ UNCHANGED <<sattempt, phase, failures, accepted, exported, boxVars, findVars>>

(* Refused, or taken over and the answer lost. *)
FinalizeFails == spc \in {"finalize", "accepted"} /\ SendFails("finalize")

QuitSucceeds ==
    /\ spc = "quit"
    /\ spc' = "returned"
    /\ exported' = Message
    /\ UNCHANGED <<sattempt, phase, failures, accepted, boxVars, findVars>>

(* The message was taken over all the same. *)
QuitFails == spc = "quit" /\ SendFails("quit")

RetrySend ==
    /\ spc = "failed"
    /\ IF sattempt < Len(Sent)
       THEN spc' = "session" /\ sattempt' = sattempt + 1
       ELSE spc' = "returned" /\ UNCHANGED sattempt
    /\ UNCHANGED <<phase, failures, accepted, exported, boxVars, findVars>>

(* External: accepted mails and mails of others reach the mailbox in any    *)
(* order and at any time.                                                   *)
Arrive ==
    /\ \E m \in (accepted \cup Foreign) \ Range(arrived) : arrived' = Append(arrived, m)
    /\ UNCHANGED <<sendVars, initial, seen, flagged, gone, findVars>>

----------------------------------------------------------------------------
(* The imap step. *)
Box == Range(arrived) \ gone

Position(m) == CHOOSE i \in 1..Len(arrived) : arrived[i] = m

Matches(m) ==
    /\ m \notin Broken
    /\ IF imap.byId THEN m = exported ELSE m \in Range(Sent) \cup imap.matching

(* Mutant: select is ignored. *)
FetchedEarliest(m, other) == Position(m) < Position(other)

(* The sequence numbers of a SEARCH are looked at in their order, or in     *)
(* reverse: m is fetched before the other.                                  *)
FetchedBefore(m, other) ==
    IF imap.latest THEN Position(m) > Position(other)
    ELSE Position(m) < Position(other)

(* Execute returns, and what it kept of the mailbox is gone; searched,      *)
(* given and current stay for an answer to be compared with.                *)
Answer(said) ==
    /\ result' = said
    /\ ipc' = IF said = "found" THEN "returned" ELSE "failed"
    /\ candidates' = {}
    /\ IF said = "error"
       THEN searched' = {} /\ given' = {} /\ current' = NoMail
       ELSE UNCHANGED <<searched, given, current>>

(* A step that refers to the exported message_id runs after the smtp step. *)
Begin ==
    /\ ipc = "idle"
    /\ imap.byId => exported # NoMail
    /\ ipc' = "connect"
    /\ UNCHANGED <<sendVars, boxVars, imap, iattempt, passed, locals, result, taken>>

(* dial, readGreeting, login and selectMailbox; then the deadline is set. *)
Connect ==
    /\ ipc = "connect"
    /\ ipc' = "search"
    /\ passed' = FALSE
    /\ result' = "none"
    /\ UNCHANGED <<sendVars, boxVars, imap, iattempt, locals, taken>>

(* Any command may be refused, or lost before it is applied. *)
CommandFails ==
    /\ ipc \in {"connect", "search", "fetch", "mark", "delete", "expunge"}
    /\ ipc = "fetch" => candidates # {}
    /\ Answer("error")
    /\ UNCHANGED <<sendVars, boxVars, imap, iattempt, passed, taken>>

Search ==
    /\ ipc = "search"
    /\ searched' = Box
    /\ given' = {m \in Box : imap.unseenOnly => m \notin seen}
    /\ candidates' = given'
    /\ current' = NoMail
    /\ ipc' = "fetch"
    /\ UNCHANGED <<sendVars, boxVars, imap, iattempt, passed, result, taken>>

(* findMessage, one FETCH: a mail that cannot be read ends the step.        *)
Fetch ==
    /\ ipc = "fetch"
    /\ \E m \in candidates :
        /\ \A other \in candidates \ {m} : FetchedBefore(m, other)
        /\ seen' = seen \cup {m}
        /\ \/ /\ Answer("error")     \* the answer is lost, or unreadable
              /\ taken' = taken \cup {m}
           \/ /\ Matches(m)
              /\ current' = m
              /\ taken' = taken \cup {m}
              /\ ipc' = "mark"
              /\ UNCHANGED <<searched, given, candidates, result>>
           \/ /\ ~Matches(m) /\ m \notin Broken
              /\ candidates' = candidates \ {m}
              /\ UNCHANGED <<ipc, searched, given, current, result, taken>>
    /\ UNCHANGED <<sendVars, initial, arrived, flagged, gone, imap, iattempt, passed>>

(* A STORE or EXPUNGE was applied: the next command, or its answer is lost. *)
Applied(next) ==
    /\ \/ ipc' = next /\ UNCHANGED <<locals, result>>
       \/ Answer("error")
    /\ UNCHANGED <<sendVars, initial, arrived, imap, iattempt, passed, taken>>

MarkAsSeen ==
    /\ ipc = "mark"
    /\ IF imap.markAsSeen
       THEN seen' = seen \cup {current} /\ Applied("delete")
       ELSE /\ ipc' = "delete"
            /\ UNCHANGED <<sendVars, initial, arrived, seen, imap, iattempt, passed,
                           locals, result, taken>>
    /\ UNCHANGED <<flagged, gone>>

(* Mutant: every mail of the SEARCH is flagged. *)
MarkAllDeleted ==
    /\ ipc = "delete" /\ imap.delete
    /\ flagged' = flagged \cup candidates
    /\ Applied("expunge")
    /\ UNCHANGED <<seen, gone>>

MarkDeleted ==
    /\ ipc = "delete" /\ imap.delete
    /\ flagged' = flagged \cup {current}
    /\ Applied("expunge")
    /\ UNCHANGED <<seen, gone>>

(* EXPUNGE removes whatever is flagged, by this attempt or before it. *)
Expunge ==
    /\ ipc = "expunge"
    /\ gone' = gone \cup flagged
    /\ Applied("found")
    /\ UNCHANGED <<seen, flagged>>

Found ==
    /\ \/ ipc = "found"
       \/ ipc = "delete" /\ ~imap.delete
    /\ Answer("found")
    /\ UNCHANGED <<sendVars, boxVars, imap, iattempt, passed, taken>>

(* No mail left to look at, and no time: the mail is not found. *)
NotFound ==
    /\ ipc = "fetch" /\ candidates = {}
    /\ ~imap.waits \/ passed
    /\ Answer("not found")
    /\ UNCHANGED <<sendVars, boxVars, imap, iattempt, passed, taken>>

Wait ==
    /\ ipc = "fetch" /\ candidates = {}
    /\ imap.waits /\ ~passed
    /\ ipc' = "waiting"
    /\ UNCHANGED <<sendVars, boxVars, imap, iattempt, passed, locals, result, taken>>

(* Mutant: the deadline is set in the loop. *)
PollAgainRestarting ==
    /\ ipc = "waiting"
    /\ ipc' = "search"
    /\ passed' = FALSE
    /\ UNCHANGED <<sendVars, boxVars, imap, iattempt, locals, result, taken>>

PollAgain ==
    /\ ipc = "waiting"
    /\ ipc' = "search"
    /\ UNCHANGED <<sendVars, boxVars, imap, iattempt, passed, locals, result, taken>>

(* The context is done; the timer may be taken instead. *)
WaitCancelled ==
    /\ ipc = "waiting"
    /\ Answer("error")
    /\ UNCHANGED <<sendVars, boxVars, imap, iattempt, passed, taken>>

(* Mutant: one attempt more. *)
RetryFindOnceMore ==
    /\ ipc = "failed"
    /\ IF iattempt <= ImapAttempts
       THEN ipc' = "connect" /\ iattempt' = iattempt + 1
       ELSE ipc' = "returned" /\ UNCHANGED iattempt
    /\ searched' = {} /\ given' = {}
    /\ passed' = FALSE
    /\ UNCHANGED <<sendVars, boxVars, imap, candidates, current, result, taken>>

RetryFind ==
    /\ ipc = "failed"
    /\ IF iattempt < ImapAttempts
       THEN ipc' = "connect" /\ iattempt' = iattempt + 1
       ELSE ipc' = "returned" /\ UNCHANGED iattempt
    /\ searched' = {} /\ given' = {}
    /\ passed' = FALSE
    /\ UNCHANGED <<sendVars, boxVars, imap, candidates, current, result, taken>>

DeadlinePasses ==
    /\ imap.waits /\ ~passed
    /\ ipc \in {"search", "fetch", "waiting"}
    /\ passed' = TRUE
    /\ UNCHANGED <<sendVars, boxVars, imap, ipc, iattempt, locals, result, taken>>

----------------------------------------------------------------------------
SmtpStep ==
    \/ SessionCommand \/ SessionFails \/ ServerAccepts
    \/ FinalizeSucceeds \/ FinalizeFails \/ QuitSucceeds \/ QuitFails \/ RetrySend

ImapStep ==
    \/ Begin \/ Connect \/ CommandFails \/ Search \/ Fetch
    \/ MarkAsSeen \/ MarkDeleted \/ Expunge \/ Found \/ NotFound
    \/ Wait \/ PollAgain \/ WaitCancelled \/ RetryFind

Terminated ==
    /\ spc = "returned"
    /\ \/ ipc = "returned"
       \/ ipc = "idle" /\ imap.byId /\ exported = NoMail
    /\ UNCHANGED vars

Next == SmtpStep \/ ImapStep \/ Arrive \/ DeadlinePasses \/ Terminated

(* The servers answer, timers fire and time passes. *)
Spec == Init /\ [][Next]_vars /\ WF_vars(ImapStep) /\ WF_vars(DeadlinePasses)

----------------------------------------------------------------------------
(* What the smtp step says, against what the server took over: a message    *)
(* said to be sent is there, under the id exported; one taken over and not  *)
(* said so belongs to an attempt that failed with the answer to its text or *)
(* with QUIT, and so does every mail sent twice.                            *)
AcceptedTellsReport ==
    /\ exported # NoMail => exported = Message /\ exported \in accepted
    /\ \A k \in 1..Len(failures) :
          /\ Sent[k] \in accepted => failures[k] \in {"finalize", "quit"}
          /\ failures[k] = "quit" => Sent[k] \in accepted
    /\ \A k \in sattempt + 1..Len(Sent) : Sent[k] \notin accepted

(* What the imap step answers, against the mailbox at its last SEARCH.      *)
(* A match there that the SEARCH did not give was seen before the two       *)
(* steps, or taken by an attempt that failed, and the search was for unseen *)
(* mails: no poll or attempt that passed one over has hidden it.  Not       *)
(* found: no mail given matches.  Found: the mail was given, it matches and *)
(* is preferred to every other match given, and it is gone exactly with     *)
(* delete.                                                                  *)
AnswerTellsMailbox ==
    /\ \A m \in searched \ given :
          imap.unseenOnly /\ (Matches(m) => m \in initial.seen \cup taken)
    /\ ipc = "failed" /\ result = "not found" => \A m \in given : ~Matches(m)
    /\ ipc = "returned" /\ result = "found" =>
          /\ current \in given /\ Matches(current)
          /\ \A m \in given \ {current} :
                Matches(m) => IF imap.latest THEN Position(m) < Position(current)
                              ELSE Position(m) > Position(current)
          /\ current \in gone <=> imap.delete

(* What the imap step does to the mailbox.  A mail flagged by it matches,   *)
(* and an attempt took it.  What is expunged was flagged, by the step or by *)
(* another client before it, and only together with a mail that matches and *)
(* was taken; all this only with delete.  A mail that matches is lost to    *)
(* SEARCH UNSEEN only when an attempt took it, and failed afterwards or     *)
(* returned it: no poll passes one over and leaves it marked.               *)
(*                                                                          *)
(* The docs promise more, and the code does not do it.  By                  *)
(* docs/reference.md:515 mark_as_seen is what marks the matched mail: FETCH *)
(* (imap/block.go:353) marks every mail that a poll inspects, matched or    *)
(* not, without that option.  By docs/reference.md:516 delete deletes the   *)
(* matched mail: EXPUNGE (imap/block.go:120) removes with it every mail     *)
(* that another client flagged.                                             *)
OnlyTakenDisappear ==
    /\ \A m \in flagged \ initial.flagged : imap.delete /\ m \in taken /\ Matches(m)
    /\ gone \subseteq flagged
    /\ gone # {} => \E m \in gone : imap.delete /\ m \in taken /\ Matches(m)
    /\ \A m \in seen \ initial.seen : Matches(m) => m \in taken

(* A step that waits is left once its deadline is behind. *)
PollingEnds == ipc # "idle" ~> ipc = "returned"

==============================================================================
