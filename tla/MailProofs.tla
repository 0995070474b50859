----------------------------- MODULE MailProofs -----------------------------
(***************************************************************************)
(* Proofs about Mail, for any number of attempts to send and to find, any  *)
(* mailboxes before the steps and any configurations of the imap step.     *)
(***************************************************************************)
EXTENDS Mail, SequenceTheorems, TLAPS

----------------------------------------------------------------------------
(* The inductive invariant.  What has been sent: the failures of the past   *)
(* attempts in order, and what the server has taken over of this one.       *)
SendType ==
    /\ spc \in {"session", "finalize", "accepted", "quit", "failed", "returned"}
    /\ sattempt \in 1..Len(Sent)
    /\ phase \in 1..Len(Session)
    /\ failures \in Seq(Commands)
    /\ accepted \subseteq Range(Sent)
    /\ exported \in Range(Sent) \cup {NoMail}

GaveUp == spc = "failed" \/ (spc = "returned" /\ exported = NoMail)

Reported ==
    /\ Len(failures) = IF GaveUp THEN sattempt ELSE sattempt - 1
    /\ exported # NoMail => spc = "returned" /\ exported = Message
    /\ spc \in {"session", "finalize"} => Message \notin accepted
    /\ spc \in {"accepted", "quit"} => Message \in accepted

SendInv == SendType /\ Reported /\ AcceptedTellsReport

(* What the imap step holds of the mailbox, and what it did to it.          *)
FindType ==
    /\ imap \in ImapConfigs
    /\ initial \in Boxes
    /\ arrived \in Seq(Mails) /\ IsInjective(arrived)
    /\ UNION {seen, flagged, gone, searched} \subseteq Range(arrived)
    /\ candidates \subseteq given /\ given \subseteq searched
    /\ ipc \in {"idle", "search", "fetch", "mark", "delete", "expunge", "found",
                "waiting", "failed", "returned", "connect"}
    /\ iattempt \in 1..ImapAttempts
    /\ passed \in BOOLEAN
    /\ current \in Range(arrived) \cup {NoMail}
    /\ result \in {"none", "found", "not found", "error"}
    /\ taken \subseteq seen

(* Before the step begins the mailbox is marked as it was found; once it    *)
(* has begun, the message_id that its criteria refer to stays what it is.   *)
Begun ==
    /\ ipc = "idle" =>
          /\ seen = initial.seen /\ flagged = initial.flagged
          /\ gone = {} /\ searched = {} /\ result = "none"
    /\ imap.byId /\ ipc # "idle" => exported # NoMail

Finding == {"mark", "delete", "expunge", "found"}

HasFound == ipc \in Finding \/ (ipc = "returned" /\ result = "found")

(* The mails given that were fetched already do not match; those of the     *)
(* mailbox that were not given are marked as seen, and not by this step     *)
(* unless it took them or they do not match.                                *)
PassedOver ==
    \A m \in searched \ given :
        imap.unseenOnly /\ (Matches(m) => m \in initial.seen \cup taken)

Polled ==
    /\ ipc \notin Finding \cup {"fetch"} => candidates = {}
    /\ ipc = "fetch" => candidates \cap gone = {}
    /\ ipc \in {"fetch", "waiting"} \/ (ipc = "failed" /\ result = "not found") =>
          \A m \in given \ candidates : ~Matches(m)
    /\ PassedOver

Preferred(found, m) ==
    IF imap.latest THEN Position(m) < Position(found)
    ELSE Position(m) > Position(found)

(* The mail that was found, and how far the mailbox was changed for it.     *)
FoundRight ==
    /\ HasFound =>
          /\ current \in given /\ Matches(current)
          /\ current \in seen /\ current \in taken
          /\ \A m \in given \ {current} : Matches(m) => Preferred(current, m)
    /\ ipc \in {"mark", "delete"} => current \notin gone
    /\ ipc = "expunge" => imap.delete /\ current \in flagged
    /\ ipc = "found" => imap.delete /\ current \in gone
    /\ ipc = "returned" /\ result = "found" => (current \in gone <=> imap.delete)
    /\ result = "found" => ipc = "returned"

FindInv == FindType /\ Begun /\ Polled /\ FoundRight /\ OnlyTakenDisappear

IInv == SendInv /\ FindInv

----------------------------------------------------------------------------
(* The mails and the attempts to send them. *)
LEMMA Attempts ==
    /\ Len(Sent) \in Nat \ {0}
    /\ \A k \in 1..Len(Sent) : Sent[k] \in Range(Sent) /\ Sent[k] # NoMail
    /\ \A j, k \in 1..Len(Sent) : Sent[j] = Sent[k] => j = k
<1>1. Sent \in Seq(Range(Sent)) /\ IsInjective(Sent) /\ Sent # <<>>
    BY MailAssumption
<1>2. DOMAIN Sent = 1..Len(Sent) /\ Len(Sent) \in Nat
    BY <1>1, LenProperties
<1>3. Len(Sent) # 0
    BY <1>1, EmptySeq
<1>4. NoMail \notin Range(Sent)
    BY MailAssumption DEF Mails
<1> QED
    BY <1>1, <1>2, <1>3, <1>4 DEF Range, IsInjective

LEMMA SessionCommands ==
    /\ Len(Session) = 3
    /\ \A p \in 1..3 : Session[p] \in Commands \ {"finalize", "quit"}
    /\ "finalize" \in Commands /\ "quit" \in Commands
<1>1. DOMAIN Session = 1..3 /\ Len(Session) = 3
    BY DEF Session
<1>2. Session[1] = "dial" /\ Session[2] = "envelope" /\ Session[3] = "data"
    BY DEF Session
<1>3. \A p \in 1..3 : Session[p] \in Commands
    BY <1>1 DEF Commands, Range
<1>4. \A p \in 1..3 : p = 1 \/ p = 2 \/ p = 3
    OBVIOUS
<1> QED
    BY <1>1, <1>2, <1>3, <1>4 DEF Commands

(* A mail has one position in the mailbox. *)
LEMMA Positions ==
    ASSUME FindType, NEW m \in Range(arrived)
    PROVE  /\ Len(arrived) \in Nat
           /\ Position(m) \in 1..Len(arrived)
           /\ arrived[Position(m)] = m
           /\ \A i \in 1..Len(arrived) : arrived[i] = m => i = Position(m)
<1>1. arrived \in Seq(Mails) /\ IsInjective(arrived)
    BY DEF FindType
<1>2. DOMAIN arrived = 1..Len(arrived) /\ Len(arrived) \in Nat
    BY <1>1, LenProperties
<1>3. \E i \in 1..Len(arrived) : arrived[i] = m
    BY <1>2 DEF Range
<1>4. Position(m) \in 1..Len(arrived) /\ arrived[Position(m)] = m
    BY <1>3 DEF Position
<1> QED
    BY <1>1, <1>2, <1>4 DEF IsInjective

----------------------------------------------------------------------------
LEMMA InitIInv == Init => IInv
<1> SUFFICES ASSUME Init PROVE IInv
    OBVIOUS
<1> USE DEF Init
<1>1. SendType
    BY Attempts, SessionCommands DEF SendType
<1>2. Reported /\ AcceptedTellsReport
    BY Attempts DEF Reported, AcceptedTellsReport, GaveUp, Message
<1>3. initial \in ValidBoxes /\ Foreign \subseteq Mails
    BY MailAssumption DEF Mails
<1>4. /\ arrived \in Seq(Foreign) /\ IsInjective(arrived)
      /\ seen \subseteq Range(arrived) /\ flagged \subseteq Range(arrived)
    BY <1>3 DEF ValidBoxes
<1>5. arrived \in Seq(Mails)
    BY <1>3, <1>4
<1>6. 1 \in 1..ImapAttempts
    BY MailAssumption
<1>7. FindType
    BY <1>4, <1>5, <1>6 DEF FindType
<1>8. Begun /\ Polled
    BY DEF Begun, Polled, PassedOver, Finding
<1>9. FoundRight
    BY DEF FoundRight, HasFound, Finding
<1>10. OnlyTakenDisappear
    BY DEF OnlyTakenDisappear
<1> QED
    BY <1>1, <1>2, <1>7, <1>8, <1>9, <1>10 DEF IInv, SendInv, FindInv

----------------------------------------------------------------------------
(* The smtp step. *)
LEMMA SendKept == ASSUME SendInv, UNCHANGED sendVars PROVE SendInv'
    BY DEF SendInv, SendType, Reported, GaveUp, AcceptedTellsReport, Message, sendVars

(* An attempt that failed is reported once, with the command it failed at.  *)
LEMMA Failing ==
    ASSUME SendInv, NEW where \in Commands, SendFails(where),
           spc \in {"session", "finalize", "accepted", "quit"},
           Message \in accepted => where \in {"finalize", "quit"},
           where = "quit" => Message \in accepted
    PROVE  SendInv'
<1> USE DEF SendFails
<1>1. /\ SendType /\ failures \in Seq(Commands) /\ sattempt \in 1..Len(Sent)
      /\ exported = NoMail
    BY DEF SendInv, SendType, Reported
<1>2. Len(failures) = sattempt - 1
    BY <1>1 DEF SendInv, Reported, GaveUp
<1>3. /\ Len(failures') = sattempt
      /\ failures' \in Seq(Commands)
      /\ failures'[sattempt] = where
      /\ \A k \in 1..sattempt - 1 : failures'[k] = failures[k]
    BY <1>1, <1>2, AppendProperties, Attempts
<1>4. SendType'
    BY <1>1, <1>3, SessionCommands DEF SendType
<1>5. Reported'
    BY <1>1, <1>3 DEF Reported, GaveUp
<1>6. AcceptedTellsReport'
  <2>1. \A k \in 1..sattempt : k = sattempt \/ k \in 1..Len(failures)
      BY <1>1, <1>2, Attempts
  <2> QED
      BY <1>1, <1>2, <1>3, <2>1 DEF AcceptedTellsReport, SendInv, Message
<1> QED
    BY <1>4, <1>5, <1>6 DEF SendInv

LEMMA SessionCommandStep == ASSUME SendInv, SessionCommand PROVE SendInv'
<1>1. SendType'
    BY SessionCommands DEF SendInv, SendType, SessionCommand
<1>2. Reported' /\ AcceptedTellsReport'
    BY DEF SendInv, SessionCommand, Reported, GaveUp, AcceptedTellsReport, Message
<1> QED
    BY <1>1, <1>2 DEF SendInv

LEMMA SessionFailsStep == ASSUME SendInv, SessionFails PROVE SendInv'
<1>1. spc = "session" /\ SendFails(Session[phase]) /\ Message \notin accepted
    BY DEF SessionFails, SendInv, Reported
<1>2. Session[phase] \in Commands \ {"finalize", "quit"}
    BY SessionCommands DEF SendInv, SendType
<1> QED
    BY <1>1, <1>2, Failing

(* No other attempt has the Message-Id of this one. *)
LEMMA ServerAcceptsStep == ASSUME SendInv, ServerAccepts PROVE SendInv'
<1> USE DEF ServerAccepts
<1>1. /\ sattempt \in 1..Len(Sent) /\ exported = NoMail
      /\ Len(failures) = sattempt - 1
    BY DEF SendInv, SendType, Reported, GaveUp
<1>2. Message \in Range(Sent) /\ Message' = Message
    BY <1>1, Attempts DEF Message
<1>3. SendType'
    BY <1>2 DEF SendInv, SendType
<1>4. Reported'
    BY <1>1, <1>2 DEF SendInv, Reported, GaveUp
<1>5. \A k \in 1..Len(Sent) : k # sattempt => (Sent[k] \in accepted' <=> Sent[k] \in accepted)
    BY <1>1, Attempts DEF Message
<1>6. /\ \A k \in 1..Len(failures) : k \in 1..Len(Sent) /\ k # sattempt
      /\ \A k \in sattempt + 1..Len(Sent) : k \in 1..Len(Sent) /\ k # sattempt
    BY <1>1, Attempts
<1>7. AcceptedTellsReport'
    BY <1>1, <1>5, <1>6 DEF SendInv, AcceptedTellsReport
<1> QED
    BY <1>3, <1>4, <1>7 DEF SendInv

LEMMA FinalizeSucceedsStep == ASSUME SendInv, FinalizeSucceeds PROVE SendInv'
    BY DEF SendInv, FinalizeSucceeds, SendType, Reported, GaveUp, AcceptedTellsReport, Message

LEMMA FinalizeFailsStep == ASSUME SendInv, FinalizeFails PROVE SendInv'
    BY SessionCommands, Failing DEF FinalizeFails

LEMMA QuitFailsStep == ASSUME SendInv, QuitFails PROVE SendInv'
<1>1. spc = "quit" /\ SendFails("quit") /\ Message \in accepted
    BY DEF QuitFails, SendInv, Reported
<1> QED
    BY <1>1, SessionCommands, Failing

LEMMA QuitSucceedsStep == ASSUME SendInv, QuitSucceeds PROVE SendInv' /\ exported = NoMail
<1> USE DEF QuitSucceeds
<1>1. /\ sattempt \in 1..Len(Sent) /\ exported = NoMail /\ Message \in accepted
      /\ Len(failures) = sattempt - 1
    BY DEF SendInv, SendType, Reported, GaveUp
<1>2. Message \in Range(Sent) /\ Message # NoMail /\ Message' = Message
    BY <1>1, Attempts DEF Message
<1>3. SendType'
    BY <1>2 DEF SendInv, SendType
<1>4. Reported'
    BY <1>1, <1>2 DEF Reported, GaveUp
<1>5. AcceptedTellsReport'
    BY <1>1, <1>2 DEF SendInv, AcceptedTellsReport
<1> QED
    BY <1>1, <1>3, <1>4, <1>5 DEF SendInv

LEMMA RetrySendStep == ASSUME SendInv, RetrySend PROVE SendInv'
<1> USE DEF RetrySend
<1>1. /\ sattempt \in 1..Len(Sent) /\ exported = NoMail
      /\ Len(failures) = sattempt /\ SendType
    BY DEF SendInv, SendType, Reported, GaveUp
<1>2. CASE sattempt < Len(Sent)
  <2>1. sattempt' = sattempt + 1 /\ sattempt' \in sattempt + 1..Len(Sent)
        /\ sattempt' \in 1..Len(Sent) /\ spc' = "session"
      BY <1>1, <1>2, Attempts
  <2>2. SendType'
      BY <1>1, <2>1 DEF SendType
  <2>3. Sent[sattempt'] \notin accepted
      BY <2>1 DEF SendInv, AcceptedTellsReport
  <2>4. Reported'
      BY <1>1, <2>1, <2>3 DEF Reported, GaveUp, Message
  <2>5. \A k \in sattempt' + 1..Len(Sent) : k \in sattempt + 1..Len(Sent)
      BY <1>1, <2>1, Attempts
  <2>6. AcceptedTellsReport'
      BY <1>1, <2>5 DEF SendInv, AcceptedTellsReport
  <2> QED
      BY <2>2, <2>4, <2>6 DEF SendInv
<1>3. CASE ~(sattempt < Len(Sent))
    BY <1>1, <1>3 DEF SendInv, SendType, Reported, GaveUp, AcceptedTellsReport, Message
<1> QED
    BY <1>2, <1>3

(* What the imap step knows does not depend on how the sending goes, apart  *)
(* from the message_id exported.                                            *)
LEMMA FindKept ==
    ASSUME FindInv, UNCHANGED <<exported, boxVars, findVars>> PROVE FindInv'
<1> USE DEF boxVars, findVars, locals
<1>1. FindType'
    BY DEF FindInv, FindType
<1>2. \A m : Matches(m)' = Matches(m) /\ Position(m)' = Position(m)
    BY DEF Matches, Position
<1>3. Begun' /\ Polled'
    BY <1>2 DEF FindInv, Begun, Polled, PassedOver
<1>4. FoundRight'
    BY <1>2 DEF FindInv, FoundRight, HasFound, Preferred
<1>5. OnlyTakenDisappear'
    BY <1>2 DEF FindInv, OnlyTakenDisappear
<1> QED
    BY <1>1, <1>3, <1>4, <1>5 DEF FindInv

(* A step that asks for the message_id has not begun before it is exported. *)
LEMMA Exporting == ASSUME FindInv, exported = NoMail, QuitSucceeds PROVE FindInv'
<1> USE DEF QuitSucceeds, boxVars, findVars, locals
<1>1. CASE ~imap.byId
  <2>1. \A m : Matches(m)' = Matches(m) /\ Position(m)' = Position(m)
      BY <1>1 DEF Matches, Position
  <2>2. FindType'
      BY DEF FindInv, FindType
  <2>3. Begun' /\ Polled'
      BY <1>1, <2>1 DEF FindInv, Begun, Polled, PassedOver
  <2>4. FoundRight'
      BY <2>1 DEF FindInv, FoundRight, HasFound, Preferred
  <2>5. OnlyTakenDisappear'
      BY <2>1 DEF FindInv, OnlyTakenDisappear
  <2> QED
      BY <2>2, <2>3, <2>4, <2>5 DEF FindInv
<1>2. CASE imap.byId
  <2>1. /\ ipc = "idle" /\ seen = initial.seen /\ flagged = initial.flagged
        /\ gone = {} /\ searched = {} /\ result = "none" /\ FindType
      BY <1>2 DEF FindInv, Begun
  <2>2. FindType'
      BY <2>1 DEF FindType
  <2>3. Begun' /\ Polled'
      BY <2>1 DEF FindInv, Begun, Polled, PassedOver, Finding
  <2>4. FoundRight'
      BY <2>1 DEF FoundRight, HasFound, Finding
  <2>5. OnlyTakenDisappear'
      BY <2>1 DEF OnlyTakenDisappear
  <2> QED
      BY <2>2, <2>3, <2>4, <2>5 DEF FindInv
<1> QED
    BY <1>1, <1>2

LEMMA SmtpSteps == ASSUME IInv, SmtpStep PROVE IInv'
<1>1. SendInv /\ FindInv
    BY DEF IInv
<1>2. SendInv'
    BY <1>1, SessionCommandStep, SessionFailsStep, ServerAcceptsStep, FinalizeSucceedsStep,
       FinalizeFailsStep, QuitSucceedsStep, QuitFailsStep, RetrySendStep
    DEF SmtpStep
<1>3. ASSUME QuitSucceeds PROVE FindInv'
    BY <1>1, <1>3, QuitSucceedsStep, Exporting
<1>4. ASSUME ~QuitSucceeds PROVE FindInv'
  <2>1. UNCHANGED <<exported, boxVars, findVars>>
      BY <1>4 DEF SmtpStep, SessionCommand, SessionFails, ServerAccepts, FinalizeSucceeds,
                  FinalizeFails, QuitFails, RetrySend, SendFails
  <2> QED
      BY <1>1, <2>1, FindKept
<1> QED
    BY <1>2, <1>3, <1>4 DEF IInv

----------------------------------------------------------------------------
(* A mail that arrives does not change the positions of those before it.    *)
LEMMA ArriveStep == ASSUME IInv, Arrive PROVE IInv'
<1>1. PICK x \in (accepted \cup Foreign) \ Range(arrived) : arrived' = Append(arrived, x)
    BY DEF Arrive
<1>2. /\ UNCHANGED sendVars
      /\ UNCHANGED <<initial, seen, flagged, gone, imap, ipc, iattempt, passed, searched,
                     given, candidates, current, result, taken, exported>>
    BY DEF Arrive, findVars, locals, sendVars
<1>3. FindInv /\ FindType /\ arrived \in Seq(Mails) /\ IsInjective(arrived)
    BY DEF IInv, FindInv, FindType
<1>4. Len(arrived) \in Nat /\ DOMAIN arrived = 1..Len(arrived)
    BY <1>3, LenProperties
<1>5. x \in Mails
    BY DEF IInv, SendInv, SendType, Mails
<1>6. /\ arrived' \in Seq(Mails)
      /\ Len(arrived') = Len(arrived) + 1
      /\ DOMAIN arrived' = 1..Len(arrived) + 1
      /\ arrived'[Len(arrived) + 1] = x
      /\ \A i \in 1..Len(arrived) : arrived'[i] = arrived[i]
    BY <1>1, <1>3, <1>4, <1>5, AppendProperties, LenProperties
<1>7. \A i \in 1..Len(arrived) + 1 : i = Len(arrived) + 1 \/ i \in 1..Len(arrived)
    BY <1>4
<1>8. \A i \in 1..Len(arrived) : arrived[i] \in Range(arrived)
    BY <1>4 DEF Range
<1>9. IsInjective(arrived')
    BY <1>1, <1>3, <1>4, <1>6, <1>7, <1>8 DEF IsInjective
<1>10. Range(arrived) \subseteq Range(arrived')
    BY <1>4, <1>6 DEF Range
<1>11. FindType'
    BY <1>2, <1>3, <1>6, <1>9, <1>10 DEF FindType
<1>12. ASSUME NEW m \in Range(arrived) PROVE Position(m)' = Position(m)
  <2>1. Position(m) \in 1..Len(arrived) /\ arrived[Position(m)] = m
      BY <1>3, Positions
  <2>2. Position(m) \in 1..Len(arrived') /\ arrived'[Position(m)] = m
      BY <1>4, <1>6, <2>1
  <2>3. Position(m)' \in 1..Len(arrived') /\ arrived'[Position(m)'] = m
      BY <2>2 DEF Position
  <2> QED
      BY <1>6, <1>9, <2>2, <2>3 DEF IsInjective
<1>13. \A m : Matches(m)' = Matches(m)
    BY <1>2 DEF Matches
<1>14. Begun' /\ Polled' /\ OnlyTakenDisappear'
    BY <1>2, <1>3, <1>13 DEF FindInv, Begun, Polled, PassedOver, OnlyTakenDisappear
<1>15. FoundRight'
  <2>1. given \subseteq Range(arrived)
      BY <1>3 DEF FindType
  <2>2. HasFound' => HasFound
      BY <1>2 DEF HasFound
  <2>3. HasFound => current \in Range(arrived)
      BY <1>3, <2>1 DEF FindInv, FindType, FoundRight
  <2>4. HasFound => \A m \in given : Preferred(current, m)' = Preferred(current, m)
      BY <1>2, <1>12, <2>1, <2>3 DEF Preferred
  <2> QED
      BY <1>2, <1>3, <1>13, <2>2, <2>4 DEF FindInv, FoundRight
<1>16. SendInv'
    BY <1>2, SendKept DEF IInv
<1> QED
    BY <1>11, <1>14, <1>15, <1>16 DEF IInv, FindInv

----------------------------------------------------------------------------
(* The imap step.  Its steps leave the Message-Ids, its configuration and   *)
(* the order of the mailbox alone.                                          *)
LEMMA SameMail ==
    ASSUME UNCHANGED <<exported, imap, arrived>>
    PROVE  \A m : Matches(m)' = Matches(m) /\ Position(m)' = Position(m)
    BY DEF Matches, Position

(* An error ends the attempt, whatever was done before it.                  *)
LEMMA Erring ==
    ASSUME FindInv, ipc # "idle", Answer("error"),
           UNCHANGED <<exported, imap, initial, arrived, iattempt, passed>>,
           seen' \subseteq Range(arrived), taken' \subseteq seen',
           flagged' \subseteq Range(arrived), gone' \subseteq Range(arrived),
           OnlyTakenDisappear'
    PROVE  FindInv'
<1> USE DEF Answer
<1>1. ipc' = "failed" /\ result' = "error" /\ candidates' = {} /\ searched' = {}
      /\ given' = {} /\ current' = NoMail
    OBVIOUS
<1>2. FindType'
    BY <1>1 DEF FindInv, FindType
<1>3. Begun'
    BY <1>1 DEF FindInv, Begun
<1>4. Polled'
    BY <1>1 DEF Polled, PassedOver
<1>5. FoundRight'
    BY <1>1 DEF FoundRight, HasFound, Finding
<1> QED
    BY <1>2, <1>3, <1>4, <1>5 DEF FindInv

(* A step that leaves the mails and what was done to them alone.            *)
LEMMA Untouched ==
    ASSUME FindInv, UNCHANGED <<exported, imap, initial, seen, flagged, gone, taken>>
    PROVE  OnlyTakenDisappear'
    BY DEF FindInv, OnlyTakenDisappear, Matches

(* A mail that was passed over stays one, whatever is taken afterwards.      *)
LEMMA StillPassedOver ==
    ASSUME FindInv, UNCHANGED <<exported, imap, initial, searched, given>>,
           taken \subseteq taken'
    PROVE  PassedOver'
<1>1. \A m : Matches(m)' = Matches(m)
    BY DEF Matches
<1>2. PassedOver
    BY DEF FindInv, Polled
<1> QED
    BY <1>1, <1>2 DEF PassedOver

LEMMA BeginStep == ASSUME FindInv, Begin, UNCHANGED exported PROVE FindInv'
<1> USE DEF Begin, boxVars, locals
<1>1. FindType'
    BY DEF FindInv, FindType
<1>2. OnlyTakenDisappear'
    BY Untouched
<1>3. Begun'
    BY DEF FindInv, Begun
<1>4. Polled'
    BY StillPassedOver DEF FindInv, Polled, Finding
<1>5. FoundRight'
    BY DEF FindInv, Begun, FoundRight, HasFound, Finding
<1> QED
    BY <1>1, <1>2, <1>3, <1>4, <1>5 DEF FindInv

LEMMA ConnectStep == ASSUME FindInv, Connect, UNCHANGED exported PROVE FindInv'
<1> USE DEF Connect, boxVars, locals
<1>1. FindType'
    BY DEF FindInv, FindType
<1>2. OnlyTakenDisappear'
    BY Untouched
<1>3. Begun'
    BY DEF FindInv, Begun
<1>4. Polled'
    BY StillPassedOver DEF FindInv, Polled, Finding
<1>5. FoundRight'
    BY DEF FoundRight, HasFound, Finding
<1> QED
    BY <1>1, <1>2, <1>3, <1>4, <1>5 DEF FindInv

LEMMA CommandFailsStep == ASSUME FindInv, CommandFails, UNCHANGED exported PROVE FindInv'
<1>1. Answer("error") /\ ipc # "idle"
    BY DEF CommandFails
<1>2. UNCHANGED <<exported, imap, initial, arrived, iattempt, passed, seen, flagged, gone, taken>>
    BY DEF CommandFails, boxVars
<1>3. UNION {seen, flagged, gone} \subseteq Range(arrived) /\ taken \subseteq seen
    BY DEF FindInv, FindType
<1> QED
    BY <1>1, <1>2, <1>3, Untouched, Erring

(* A mail that SEARCH leaves out has been seen: before the steps, or when    *)
(* it was taken, unless it does not match.                                  *)
LEMMA SearchStep == ASSUME FindInv, Search, UNCHANGED exported PROVE FindInv'
<1> USE DEF Search, boxVars
<1>1. FindType'
  <2>1. /\ arrived \in Seq(Mails) /\ IsInjective(arrived)
        /\ UNION {seen, flagged, gone, searched} \subseteq Range(arrived)
      BY DEF FindInv, FindType
  <2>2. searched' \subseteq Range(arrived) /\ candidates' \subseteq given'
        /\ given' \subseteq searched'
      BY <2>1 DEF Box
  <2>3. UNION {seen, flagged, gone, searched}' \subseteq Range(arrived')
      BY <2>1, <2>2
  <2> QED
      BY <2>1, <2>2, <2>3 DEF FindInv, FindType
<1>2. OnlyTakenDisappear'
    BY Untouched
<1>3. Begun'
    BY DEF FindInv, Begun
<1>4. PassedOver'
  <2>1. ASSUME NEW m \in searched' \ given'
        PROVE  imap.unseenOnly /\ m \in seen
      BY <2>1
  <2>2. \A m \in seen \ initial.seen : Matches(m) => m \in taken
      BY DEF FindInv, OnlyTakenDisappear
  <2>3. \A m : Matches(m)' = Matches(m)
      BY SameMail
  <2> QED
      BY <2>1, <2>2, <2>3 DEF PassedOver
<1>5. Polled'
    BY <1>4 DEF Polled, Finding, Box
<1>6. FoundRight'
    BY DEF FindInv, FoundRight, HasFound, Finding
<1> QED
    BY <1>1, <1>2, <1>3, <1>5, <1>6 DEF FindInv

LEMMA FetchStep == ASSUME FindInv, Fetch, UNCHANGED exported PROVE FindInv'
<1>1. PICK m \in candidates :
        /\ \A other \in candidates \ {m} : FetchedBefore(m, other)
        /\ seen' = seen \cup {m}
        /\ \/ /\ Answer("error")
              /\ taken' = taken \cup {m}
           \/ /\ Matches(m)
              /\ current' = m
              /\ taken' = taken \cup {m}
              /\ ipc' = "mark"
              /\ UNCHANGED <<searched, given, candidates, result>>
           \/ /\ ~Matches(m) /\ m \notin Broken
              /\ candidates' = candidates \ {m}
              /\ UNCHANGED <<ipc, searched, given, current, result, taken>>
    BY DEF Fetch
<1>2. ipc = "fetch" /\ UNCHANGED <<exported, imap, initial, arrived, flagged, gone, iattempt, passed>>
    BY DEF Fetch
<1>3. \A o : Matches(o)' = Matches(o) /\ Position(o)' = Position(o)
    BY <1>2, SameMail
<1>4. /\ FindType /\ candidates \subseteq given /\ m \notin gone
      /\ candidates \subseteq Range(arrived)
      /\ \A o \in given \ candidates : ~Matches(o)
    BY <1>1, <1>2 DEF FindInv, FindType, Polled, PassedOver
<1>5. OnlyTakenDisappear /\ result # "found" /\ (imap.byId => exported # NoMail)
    BY <1>2 DEF FindInv, FoundRight, Begun
<1>6. OnlyTakenDisappear'
  <2>1. taken \subseteq taken' /\ (m \in taken' \/ ~Matches(m))
      BY <1>1
  <2> QED
      BY <1>1, <1>2, <1>3, <1>5, <2>1 DEF OnlyTakenDisappear
<1>7. CASE Answer("error") /\ taken' = taken \cup {m}
  <2>1. seen' \subseteq Range(arrived) /\ taken' \subseteq seen'
        /\ flagged' \subseteq Range(arrived) /\ gone' \subseteq Range(arrived)
      BY <1>1, <1>2, <1>4, <1>7 DEF FindType
  <2> QED
      BY <1>2, <1>6, <1>7, <2>1, Erring
<1>8. CASE /\ Matches(m) /\ current' = m /\ taken' = taken \cup {m} /\ ipc' = "mark"
           /\ UNCHANGED <<searched, given, candidates, result>>
  <2>1. FindType'
    <3>1. UNION {seen, flagged, gone, searched}' \subseteq Range(arrived')
      <4>1. /\ seen' \subseteq Range(arrived) /\ flagged' \subseteq Range(arrived)
            /\ gone' \subseteq Range(arrived) /\ searched' \subseteq Range(arrived)
          BY <1>1, <1>2, <1>4, <1>8 DEF FindType
      <4> QED
          BY <1>2, <4>1
    <3>2. current' \in Range(arrived') /\ taken' \subseteq seen'
        BY <1>1, <1>2, <1>4, <1>8 DEF FindType
    <3> QED
        BY <1>2, <1>4, <1>8, <3>1, <3>2 DEF FindType
  <2>2. Begun' /\ Polled'
      BY <1>1, <1>2, <1>4, <1>5, <1>8, StillPassedOver DEF FindInv, Begun, Polled, Finding
  <2>3. ASSUME NEW o \in given \ {m}, Matches(o)
        PROVE  Preferred(m, o)
    <3>1. o \in candidates
        BY <1>4, <2>3
    <3>2. FetchedBefore(m, o)
        BY <1>1, <2>3, <3>1
    <3>3. Position(o) \in Nat /\ Position(m) \in Nat
        BY <1>1, <1>4, <3>1, Positions
    <3> QED
        BY <3>2, <3>3 DEF FetchedBefore, Preferred
  <2>4. \A o : Preferred(m, o)' = Preferred(m, o)
      BY <1>2, <1>3 DEF Preferred
  <2>5. FoundRight'
      BY <1>1, <1>2, <1>3, <1>4, <1>5, <1>8, <2>3, <2>4 DEF FoundRight, HasFound, Finding, Preferred
  <2> QED
      BY <1>6, <2>1, <2>2, <2>5 DEF FindInv
<1>9. CASE /\ ~Matches(m) /\ candidates' = candidates \ {m}
           /\ UNCHANGED <<ipc, searched, given, current, result, taken>>
  <2>1. FindType'
    <3>1. UNION {seen, flagged, gone, searched} \subseteq Range(arrived)
        BY <1>4 DEF FindType
    <3>2. UNION {seen, flagged, gone, searched}' \subseteq Range(arrived')
        BY <1>1, <1>2, <1>4, <1>9, <3>1
    <3>3. taken' \subseteq seen'
        BY <1>1, <1>4, <1>9 DEF FindType
    <3> QED
        BY <1>2, <1>4, <1>9, <3>2, <3>3 DEF FindType
  <2>2. Begun'
      BY <1>2, <1>5, <1>9 DEF Begun
  <2>3. Polled'
      BY <1>1, <1>2, <1>3, <1>4, <1>9 DEF FindInv, Polled, PassedOver
  <2>4. FoundRight'
      BY <1>2, <1>5, <1>9 DEF FoundRight, HasFound, Finding
  <2> QED
      BY <1>6, <2>1, <2>2, <2>3, <2>4 DEF FindInv
<1> QED
    BY <1>1, <1>7, <1>8, <1>9

(* What an attempt does with the mail it found.                             *)
LEMMA FoundFacts ==
    ASSUME FindInv, ipc \in Finding
    PROVE  /\ HasFound /\ FindType /\ result # "found"
           /\ imap.byId => exported # NoMail
           /\ current \in Range(arrived) /\ current \in taken /\ Matches(current)
         BY DEF FindInv, FindType, FoundRight, HasFound, Finding, Begun

(* The next command on the mail found, which stays the one found.           *)
LEMMA StillFound ==
    ASSUME FindInv, ipc \in Finding, ipc' \in Finding,
           UNCHANGED <<exported, imap, initial, arrived, iattempt, passed, locals, result, taken>>,
           seen \subseteq seen', seen' \subseteq Range(arrived),
           flagged' \subseteq Range(arrived), gone' \subseteq Range(arrived),
           OnlyTakenDisappear',
           ipc' \in {"mark", "delete"} => current \notin gone',
           ipc' = "expunge" => imap.delete /\ current \in flagged',
           ipc' = "found" => imap.delete /\ current \in gone'
    PROVE  FindInv'
<1> USE DEF locals
<1>1. \A m : Matches(m)' = Matches(m) /\ Position(m)' = Position(m)
    BY SameMail
<1>2. HasFound /\ FindType /\ result # "found" /\ (imap.byId => exported # NoMail)
    BY FoundFacts
<1>3. FindType'
    BY <1>2 DEF FindType, Finding
<1>4. Begun'
    BY <1>2 DEF Begun, Finding
<1>5. Polled'
    BY StillPassedOver DEF FindInv, Polled, Finding
<1>6. \A m : Preferred(current, m)' = Preferred(current, m)
    BY <1>1 DEF Preferred
<1>7. /\ current \in given /\ Matches(current) /\ current \in seen /\ current \in taken
      /\ \A m \in given \ {current} : Matches(m) => Preferred(current, m)
    BY <1>2 DEF FindInv, FoundRight
<1>8. FoundRight'
    BY <1>1, <1>2, <1>6, <1>7 DEF FoundRight, Finding, Preferred
<1> QED
    BY <1>3, <1>4, <1>5, <1>8 DEF FindInv

LEMMA MarkAsSeenStep == ASSUME FindInv, MarkAsSeen, UNCHANGED exported PROVE FindInv'
<1> USE DEF MarkAsSeen
<1>1. ipc = "mark" /\ ipc \in Finding /\ UNCHANGED <<flagged, gone>>
    BY DEF Finding
<1>2. /\ FindType /\ current \in Range(arrived) /\ current \in taken
      /\ current \notin gone
    BY <1>1, FoundFacts DEF FindInv, FoundRight
<1>3. UNCHANGED <<initial, arrived, imap, iattempt, passed, taken>>
    BY DEF Applied
<1>4. /\ seen \subseteq seen' /\ seen' \subseteq seen \cup {current}
      /\ seen' \subseteq Range(arrived) /\ taken' \subseteq seen'
      /\ flagged' \subseteq Range(arrived) /\ gone' \subseteq Range(arrived)
    BY <1>1, <1>2, <1>3 DEF FindType
<1>5. OnlyTakenDisappear'
    BY <1>1, <1>2, <1>3, <1>4, SameMail DEF FindInv, OnlyTakenDisappear
<1>6. CASE Answer("error")
    BY <1>1, <1>3, <1>4, <1>5, <1>6, Erring
<1>7. CASE ipc' = "delete" /\ UNCHANGED <<locals, result>>
  <2>1. ipc' \in Finding /\ current \notin gone'
      BY <1>1, <1>2, <1>7 DEF Finding
  <2> QED
      BY <1>1, <1>3, <1>4, <1>5, <1>7, <2>1, StillFound
<1> QED
    BY <1>6, <1>7 DEF Applied

LEMMA MarkDeletedStep == ASSUME FindInv, MarkDeleted, UNCHANGED exported PROVE FindInv'
<1> USE DEF MarkDeleted
<1>1. /\ ipc = "delete" /\ ipc \in Finding /\ imap.delete /\ UNCHANGED <<seen, gone>>
      /\ flagged' = flagged \cup {current}
    BY DEF Finding
<1>2. /\ FindType /\ current \in Range(arrived) /\ current \in taken
      /\ Matches(current)
    BY <1>1, FoundFacts
<1>3. UNCHANGED <<initial, arrived, imap, iattempt, passed, taken>>
    BY DEF Applied
<1>4. /\ seen \subseteq seen' /\ seen' \subseteq Range(arrived) /\ taken' \subseteq seen'
      /\ flagged' \subseteq Range(arrived) /\ gone' \subseteq Range(arrived)
    BY <1>1, <1>2, <1>3 DEF FindType
<1>5. OnlyTakenDisappear'
    BY <1>1, <1>2, <1>3, SameMail DEF FindInv, OnlyTakenDisappear
<1>6. CASE Answer("error")
    BY <1>1, <1>3, <1>4, <1>5, <1>6, Erring
<1>7. CASE ipc' = "expunge" /\ UNCHANGED <<locals, result>>
  <2>1. ipc' \in Finding
      BY <1>7 DEF Finding
  <2> QED
      BY <1>1, <1>3, <1>4, <1>5, <1>7, <2>1, StillFound
<1> QED
    BY <1>6, <1>7 DEF Applied

LEMMA ExpungeStep == ASSUME FindInv, Expunge, UNCHANGED exported PROVE FindInv'
<1> USE DEF Expunge
<1>1. /\ ipc = "expunge" /\ ipc \in Finding /\ UNCHANGED <<seen, flagged>>
      /\ gone' = gone \cup flagged
    BY DEF Finding
<1>2. /\ FindType /\ imap.delete /\ current \in flagged
      /\ current \in taken /\ Matches(current)
    BY <1>1, FoundFacts DEF FindInv, FoundRight
<1>3. UNCHANGED <<initial, arrived, imap, iattempt, passed, taken>>
    BY DEF Applied
<1>4. /\ seen \subseteq seen' /\ seen' \subseteq Range(arrived) /\ taken' \subseteq seen'
      /\ flagged' \subseteq Range(arrived) /\ gone' \subseteq Range(arrived)
    BY <1>1, <1>2, <1>3 DEF FindType
<1>5. OnlyTakenDisappear'
  <2>1. \A m : Matches(m)' = Matches(m)
      BY <1>3, SameMail
  <2>2. PICK found : found = current
      OBVIOUS
  <2>3. found \in gone' /\ imap'.delete /\ found \in taken' /\ Matches(found)'
      BY <1>1, <1>2, <1>3, <2>1, <2>2
  <2>4. OnlyTakenDisappear /\ gone' \subseteq flagged' /\ UNCHANGED <<initial, imap, taken>>
      BY <1>1, <1>3 DEF FindInv, OnlyTakenDisappear
  <2> QED
      BY <1>1, <2>1, <2>3, <2>4 DEF OnlyTakenDisappear
<1>6. CASE Answer("error")
    BY <1>1, <1>3, <1>4, <1>5, <1>6, Erring
<1>7. CASE ipc' = "found" /\ UNCHANGED <<locals, result>>
  <2>1. ipc' \in Finding
      BY <1>7 DEF Finding
  <2> QED
      BY <1>1, <1>2, <1>3, <1>4, <1>5, <1>7, <2>1, StillFound
<1> QED
    BY <1>6, <1>7 DEF Applied

LEMMA FoundStep == ASSUME FindInv, Found, UNCHANGED exported PROVE FindInv'
<1> USE DEF Found, Answer, boxVars
<1>1. /\ ipc' = "returned" /\ result' = "found" /\ candidates' = {}
      /\ UNCHANGED <<searched, given, current, exported, imap, initial, arrived, seen,
                     flagged, gone, iattempt, passed, taken>>
      /\ ipc \in Finding
      /\ ipc = "found" \/ (ipc = "delete" /\ ~imap.delete)
    BY DEF Finding
<1>2. HasFound /\ FindType /\ (imap.byId => exported # NoMail)
    BY <1>1, FoundFacts
<1>3. \A m : Matches(m)' = Matches(m) /\ Position(m)' = Position(m)
    BY <1>1, SameMail
<1>4. FindType'
    BY <1>1, <1>2 DEF FindType
<1>5. Begun' /\ Polled'
    BY <1>1, <1>2, StillPassedOver DEF FindInv, Begun, Polled, Finding
<1>6. OnlyTakenDisappear'
    BY <1>1, Untouched
<1>7. \A m : Preferred(current, m)' = Preferred(current, m)
    BY <1>1, <1>3 DEF Preferred
<1>8. current \in gone <=> imap.delete
    BY <1>1 DEF FindInv, FoundRight
<1>9. /\ current \in given /\ Matches(current) /\ current \in seen /\ current \in taken
      /\ \A m \in given \ {current} : Matches(m) => Preferred(current, m)
    BY <1>2 DEF FindInv, FoundRight
<1>10. FoundRight'
    BY <1>1, <1>3, <1>7, <1>8, <1>9 DEF FoundRight, Finding, Preferred
<1> QED
    BY <1>4, <1>5, <1>6, <1>10 DEF FindInv

(* Nothing is left to be fetched: no mail given matches.                    *)
LEMMA NotFoundStep == ASSUME FindInv, NotFound, UNCHANGED exported PROVE FindInv'
<1> USE DEF NotFound, Answer, boxVars
<1>1. /\ ipc = "fetch" /\ candidates = {} /\ ipc' = "failed" /\ result' = "not found"
      /\ UNCHANGED <<candidates, searched, given, current, exported, imap, initial,
                     arrived, seen, flagged, gone, iattempt, passed, taken>>
    OBVIOUS
<1>2. \A m : Matches(m)' = Matches(m) /\ Position(m)' = Position(m)
    BY <1>1, SameMail
<1>3. FindType' /\ Begun'
    BY <1>1 DEF FindInv, FindType, Begun
<1>4. Polled'
    BY <1>1, <1>2 DEF FindInv, Polled, PassedOver
<1>5. FoundRight'
    BY <1>1 DEF FoundRight, HasFound, Finding
<1> QED
    BY <1>1, <1>3, <1>4, <1>5, Untouched DEF FindInv

LEMMA WaitStep == ASSUME FindInv, Wait, UNCHANGED exported PROVE FindInv'
<1> USE DEF Wait, boxVars, locals
<1>1. \A m : Matches(m)' = Matches(m) /\ Position(m)' = Position(m)
    BY SameMail
<1>2. FindType' /\ Begun'
    BY DEF FindInv, FindType, Begun
<1>3. Polled'
    BY <1>1, StillPassedOver DEF FindInv, Polled, Finding
<1>4. FoundRight'
    BY DEF FindInv, FoundRight, HasFound, Finding
<1> QED
    BY <1>2, <1>3, <1>4, Untouched DEF FindInv

LEMMA PollAgainStep == ASSUME FindInv, PollAgain, UNCHANGED exported PROVE FindInv'
<1> USE DEF PollAgain, boxVars, locals
<1>1. FindType' /\ Begun'
    BY DEF FindInv, FindType, Begun
<1>2. Polled'
    BY StillPassedOver DEF FindInv, Polled, Finding
<1>3. FoundRight'
    BY DEF FindInv, FoundRight, HasFound, Finding
<1> QED
    BY <1>1, <1>2, <1>3, Untouched DEF FindInv

LEMMA WaitCancelledStep == ASSUME FindInv, WaitCancelled, UNCHANGED exported PROVE FindInv'
<1>1. Answer("error") /\ ipc # "idle"
    BY DEF WaitCancelled
<1>2. UNCHANGED <<exported, imap, initial, arrived, iattempt, passed, seen, flagged, gone, taken>>
    BY DEF WaitCancelled, boxVars
<1>3. UNION {seen, flagged, gone} \subseteq Range(arrived) /\ taken \subseteq seen
    BY DEF FindInv, FindType
<1> QED
    BY <1>1, <1>2, <1>3, Untouched, Erring

LEMMA RetryFindStep == ASSUME FindInv, RetryFind, UNCHANGED exported PROVE FindInv'
<1> USE DEF RetryFind, boxVars
<1>1. FindType /\ iattempt \in 1..ImapAttempts /\ ImapAttempts \in Nat
    BY MailAssumption DEF FindInv, FindType
<1>2. iattempt' \in 1..ImapAttempts
    BY <1>1
<1>3. FindType'
  <2>1. candidates' = {} /\ given' = {} /\ searched' = {}
      BY DEF FindInv, Polled, Finding
  <2>2. ipc' \in {"connect", "returned"}
      OBVIOUS
  <2> QED
      BY <1>1, <1>2, <2>1, <2>2 DEF FindType
<1>4. Begun'
    BY DEF FindInv, Begun
<1>5. candidates = {} /\ result # "found"
    BY DEF FindInv, Polled, PassedOver, FoundRight, Finding
<1>6. Polled' /\ FoundRight'
    BY <1>5 DEF Polled, PassedOver, FoundRight, HasFound, Finding
<1> QED
    BY <1>3, <1>4, <1>6, Untouched DEF FindInv

LEMMA DeadlinePassesStep == ASSUME FindInv, DeadlinePasses, UNCHANGED exported PROVE FindInv'
<1> USE DEF DeadlinePasses, boxVars, locals
<1>1. \A m : Matches(m)' = Matches(m) /\ Position(m)' = Position(m)
    BY SameMail
<1>2. FindType' /\ Begun'
    BY DEF FindInv, FindType, Begun
<1>3. Polled'
    BY <1>1 DEF FindInv, Polled, PassedOver
<1>4. FoundRight'
    BY <1>1 DEF FindInv, FoundRight, HasFound, Preferred
<1> QED
    BY <1>2, <1>3, <1>4, Untouched DEF FindInv

LEMMA ImapSteps == ASSUME IInv, ImapStep \/ DeadlinePasses PROVE IInv'
<1>1. SendInv /\ FindInv
    BY DEF IInv
<1>2. UNCHANGED sendVars
    BY DEF ImapStep, Begin, Connect, CommandFails, Search, Fetch, MarkAsSeen, MarkDeleted,
           Expunge, Applied, Found, NotFound, Wait, PollAgain, WaitCancelled, RetryFind,
           DeadlinePasses
<1>3. UNCHANGED exported
    BY <1>2 DEF sendVars
<1>4. FindInv'
    BY <1>1, <1>3, BeginStep, ConnectStep, CommandFailsStep, SearchStep, FetchStep,
       MarkAsSeenStep, MarkDeletedStep, ExpungeStep, FoundStep, NotFoundStep, WaitStep,
       PollAgainStep, WaitCancelledStep, RetryFindStep, DeadlinePassesStep
    DEF ImapStep
<1> QED
    BY <1>1, <1>2, <1>4, SendKept DEF IInv

----------------------------------------------------------------------------
LEMMA NextIInv == IInv /\ [Next]_vars => IInv'
<1> SUFFICES ASSUME IInv, [Next]_vars PROVE IInv'
    OBVIOUS
<1>1. CASE SmtpStep
    BY <1>1, SmtpSteps
<1>2. CASE ImapStep \/ DeadlinePasses
    BY <1>2, ImapSteps
<1>3. CASE Arrive
    BY <1>3, ArriveStep
<1>4. CASE UNCHANGED vars
    BY <1>4, SendKept, FindKept DEF IInv, vars, sendVars
<1> QED
    BY <1>1, <1>2, <1>3, <1>4 DEF Next, Terminated

THEOREM Invariance == Spec => []IInv
    BY InitIInv, NextIInv, PTL DEF Spec

(* The state of the two steps and of the mailbox is what it is declared to be: *)
(* in particular no step takes more attempts than its budget, and nothing is   *)
(* marked or removed that never was in the mailbox.                            *)
THEOREM TypeCorrect == Spec => []TypeOK
<1>1. IInv => TypeOK
    BY DEF IInv, SendInv, FindInv, SendType, FindType, TypeOK
<1> QED
    BY <1>1, Invariance, PTL

(* A message said to be sent was taken over under the id exported, and one     *)
(* taken over without being said so is told by where its attempt failed.       *)
THEOREM AcceptedReported == Spec => []AcceptedTellsReport
<1>1. IInv => AcceptedTellsReport
    BY DEF IInv, SendInv
<1> QED
    BY <1>1, Invariance, PTL

(* Whatever mails the mailbox held before, an answer of the imap step is true  *)
(* of its last SEARCH: a match the SEARCH did not give was seen before the     *)
(* steps or taken by a failed attempt; not found, no mail given matches;       *)
(* found, the mail matches, select prefers it to every other match given, and  *)
(* it is gone exactly with delete.                                             *)
THEOREM AnswersTrue == Spec => []AnswerTellsMailbox
<1>1. ASSUME IInv PROVE AnswerTellsMailbox
  <2>1. ASSUME ipc = "failed", result = "not found"
        PROVE  \A m \in given : ~Matches(m)
    <3>1. candidates = {}
        BY <1>1, <2>1 DEF IInv, FindInv, Polled, Finding
    <3> QED
        BY <1>1, <2>1, <3>1 DEF IInv, FindInv, Polled
  <2>2. ASSUME ipc = "returned", result = "found"
        PROVE  /\ current \in given /\ Matches(current)
               /\ current \in gone <=> imap.delete
               /\ \A m \in given \ {current} : Matches(m) => Preferred(current, m)
      BY <1>1, <2>2 DEF IInv, FindInv, FoundRight, HasFound
  <2>3. PassedOver
      BY <1>1 DEF IInv, FindInv, Polled
  <2> QED
      BY <2>1, <2>2, <2>3 DEF AnswerTellsMailbox, PassedOver, Preferred
<1> QED
    BY <1>1, Invariance, PTL

(* The step flags only mails that match and that an attempt took; it expunges  *)
(* nothing unless it took a match, and then only what it or another client     *)
(* flagged; and no match is newly seen that no attempt took.                   *)
THEOREM OthersStay == Spec => []OnlyTakenDisappear
<1>1. IInv => OnlyTakenDisappear
    BY DEF IInv, FindInv
<1> QED
    BY <1>1, Invariance, PTL

=============================================================================
