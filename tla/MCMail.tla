-------------------------------- MODULE MCMail --------------------------------
(***************************************************************************)
(* Two attempts to send and two to find; one mail of each kind of others,  *)
(* both, one or none of them in the mailbox when the steps begin.          *)
(***************************************************************************)
EXTENDS Mail

MCSent == <<"first", "second">>

Holding(mails, seenBefore, flaggedBefore) ==
    [arrived |-> mails, seen |-> seenBefore, flagged |-> flaggedBefore]

(* The readable mail of others alone, seen or flagged for deletion; the     *)
(* broken one out of the way of a search for unseen mails; both, in either  *)
(* order, and the readable one about to go with the next EXPUNGE.           *)
MCBoxes ==
    { Holding(<<>>, {}, {}),
      Holding(<<"other">>, {}, {"other"}),
      Holding(<<"other">>, {"other"}, {}),
      Holding(<<"broken">>, {"broken"}, {"broken"}),
      Holding(<<"broken", "other">>, {"broken"}, {"other"}),
      Holding(<<"other", "broken">>, {"broken"}, {"other"}) }

(* By Message-Id or not, unseen mails or all, either order, waiting or not, *)
(* marked, deleted or both; the mail of others matches in the first two.    *)
MCImapConfigs ==
    { [byId |-> FALSE, matching |-> {"other"}, unseenOnly |-> FALSE, latest |-> TRUE,
       waits |-> FALSE, markAsSeen |-> FALSE, delete |-> TRUE],
      [byId |-> FALSE, matching |-> {"other"}, unseenOnly |-> FALSE, latest |-> FALSE,
       waits |-> FALSE, markAsSeen |-> FALSE, delete |-> FALSE],
      [byId |-> FALSE, matching |-> {}, unseenOnly |-> TRUE, latest |-> FALSE,
       waits |-> TRUE, markAsSeen |-> TRUE, delete |-> FALSE],
      [byId |-> TRUE, matching |-> {}, unseenOnly |-> TRUE, latest |-> TRUE,
       waits |-> TRUE, markAsSeen |-> TRUE, delete |-> TRUE] }

===============================================================================
