--------------------------- MODULE WithdrawAccount ---------------------------
(***************************************************************************)
(* The payout account of one user: the user saves its details, an          *)
(* administrator who has them on the screen approves or rejects them, and  *)
(* withdraw_apply copies them into an application.  The handlers read the  *)
(* row without a lock and write it later, each in an implicit transaction  *)
(* of its own, so a read and a write are steps that others may separate.   *)
(***************************************************************************)
EXTENDS Integers

CONSTANTS
  Details,      \* real name, account number and QR code, as one value
  NoDetails,
  Savers,       \* concurrent requests of the user to save the account
  Admins        \* administrators, each with one page open

ASSUME NoDetailsIsNew == NoDetails \notin Details

VARIABLES
  row,          \* the withdraw_account row of the user
  saver,        \* each save request: the row it read, and what it will write
  reviewer,     \* each administrator's page and pending review
  paying,       \* the details an application under way has read
  payouts,      \* details that applications carry
  vouched,      \* history: details that administrators answer for by an approval
  before,       \* history: the saves that were under way when a page was loaded
  outdated       \* history: pages under which such a save was written, or another review

accountHistory == <<vouched, before, outdated>>
accountVars    == <<row, saver, reviewer, paying, payouts, accountHistory>>

Statuses == {"absent", "pending", "approved", "rejected"}

NoRow      == [status |-> "absent", details |-> NoDetails]
NotSaving  == [pc |-> "idle", read |-> NoRow, details |-> NoDetails]
NotLooking == [pc |-> "idle", shown |-> NoDetails, decision |-> "rejected"]

Row == [status : Statuses, details : Details \cup {NoDetails}]

AccountInit ==
  /\ row      = NoRow
  /\ saver    = [s \in Savers |-> NotSaving]
  /\ reviewer = [r \in Admins |-> NotLooking]
  /\ paying   = NoDetails
  /\ payouts  = {} /\ vouched = {}
  /\ before   = [r \in Admins |-> {}] /\ outdated = {}

-----------------------------------------------------------------------------
SavableAlways(status) == TRUE                      \* mutant of Savable
Savable(status)       == status # "pending"

\* A save that would change nothing of an approved account leaves it alone.
AlreadyApproved(read, details) == read.status = "approved" /\ read.details = details

SaveRead(s, details) ==
  /\ saver[s].pc = "idle"
  /\ Savable(row.status) /\ ~AlreadyApproved(row, details)
  /\ saver' = [saver EXCEPT ![s] = [pc |-> "read", read |-> row, details |-> details]]
  /\ UNCHANGED <<row, reviewer, paying, payouts, accountHistory>>

AfterSave(read)   == "pending"

\* The user's row is unique: a second insert fails.  An update writes every
\* field, whatever the row holds by now.
SaveWrite(s) ==
  LET second == saver[s].read.status = "absent" /\ row.status # "absent"
  IN  /\ saver[s].pc = "read"
      /\ row'   = IF second THEN row
                  ELSE [status |-> AfterSave(saver[s].read), details |-> saver[s].details]
      /\ saver' = [saver EXCEPT ![s] = NotSaving]
      /\ outdated' = IF second THEN outdated ELSE outdated \cup {r \in Admins : s \in before[r]}
      /\ before'  = [r \in Admins |-> before[r] \ {s}]
      /\ UNCHANGED <<reviewer, paying, payouts, vouched>>

-----------------------------------------------------------------------------
\* The list of accounts, loaded or refreshed, shows a pending one with its buttons.
ListAccounts(r) ==
  /\ reviewer[r].pc = "idle"
  /\ row.status = "pending"
  /\ reviewer' = [reviewer EXCEPT ![r] = [NotLooking EXCEPT !.pc = "shown", !.shown = row.details]]
  /\ before'   = [before EXCEPT ![r] = {s \in Savers : saver[s].pc = "read"}]
  /\ UNCHANGED <<row, saver, paying, payouts, vouched, outdated>>

\* An administrator is done with the page.
Forget(r) == before' = [before EXCEPT ![r] = {}]

\* The administrator reviews what is shown; the handler reads the row anew,
ReviewRead(r, decision) ==
  /\ reviewer[r].pc = "shown"
  /\ row.status = "pending"
  /\ reviewer' = [reviewer EXCEPT ![r].pc = "checked", ![r].decision = decision]
  /\ UNCHANGED <<row, saver, paying, payouts, accountHistory>>

\* and refuses when it is not pending.
ReviewRefused(r) ==
  /\ reviewer[r].pc = "shown"
  /\ row.status # "pending"
  /\ reviewer' = [reviewer EXCEPT ![r] = NotLooking]
  /\ Forget(r)
  /\ outdated' = outdated \ {r}
  /\ UNCHANGED <<row, saver, paying, payouts, vouched>>

\* It saves the status, and not the details it read.
ReviewWrite(r) ==
  LET looking == {q \in Admins : reviewer[q].pc # "idle"}
      details == IF r \in outdated THEN row.details ELSE reviewer[r].shown
  IN  /\ reviewer[r].pc = "checked"
      /\ row'      = [row EXCEPT !.status = reviewer[r].decision]
      /\ reviewer' = [reviewer EXCEPT ![r] = NotLooking]
      /\ vouched'  = IF reviewer[r].decision = "approved" THEN vouched \cup {details} ELSE vouched
      /\ outdated' = (outdated \cup looking) \ {r}
      /\ Forget(r)
      /\ UNCHANGED <<saver, paying, payouts>>

-----------------------------------------------------------------------------
Payable(status) == status = "approved"

\* withdraw_apply reads the account before its transaction,
ApplyRead ==
  /\ paying = NoDetails
  /\ Payable(row.status)
  /\ paying' = row.details
  /\ UNCHANGED <<row, saver, reviewer, payouts, accountHistory>>

\* and creates the application with what it read, or fails for another reason.
ApplyCreate ==
  /\ paying # NoDetails
  /\ payouts' \in {payouts, payouts \cup {paying}}
  /\ paying' = NoDetails
  /\ UNCHANGED <<row, saver, reviewer, accountHistory>>

AccountNext ==
  \/ \E s \in Savers : SaveWrite(s) \/ \E details \in Details : SaveRead(s, details)
  \/ \E r \in Admins : \/ ListAccounts(r) \/ ReviewRefused(r) \/ ReviewWrite(r)
                       \/ \E decision \in {"approved", "rejected"} : ReviewRead(r, decision)
  \/ ApplyRead \/ ApplyCreate

AccountSpec == AccountInit /\ [][AccountNext]_accountVars

-----------------------------------------------------------------------------
(***************************************************************************)
(* Every variable has its type, and the account and what is paid out have  *)
(* details as soon as they exist.                                          *)
(***************************************************************************)
AccountTypeOK ==
  /\ row \in Row /\ (row.status = "absent" <=> row.details = NoDetails)
  /\ saver \in [Savers -> [pc : {"idle", "read"}, read : Row, details : Details \cup {NoDetails}]]
  /\ reviewer \in [Admins -> [pc : {"idle", "shown", "checked"},
                                 shown : Details \cup {NoDetails},
                                 decision : {"approved", "rejected"}]]
  /\ \A r \in Admins : reviewer[r].pc = "idle" <=> reviewer[r].shown = NoDetails
  /\ paying \in Details \cup {NoDetails}
  /\ payouts \subseteq Details /\ vouched \subseteq Details
  /\ before \in [Admins -> SUBSET Savers] /\ outdated \subseteq Admins

(***************************************************************************)
(* An application pays to details that an administrator approved from a    *)
(* page that showed them.  What was submitted behind a page is paid to     *)
(* only if the page was outdated: another administrator decided the        *)
(* account under it, or a save that had found the account open before the  *)
(* page was loaded was written under it.  Then the approval was for the    *)
(* details in the row.  No other save, refused review or application made  *)
(* from what it read earlier gets money to details nobody saw.             *)
(***************************************************************************)
PayoutWasSeen == payouts \subseteq vouched

(***************************************************************************)
(* A decided account is decided again only after the user submitted it     *)
(* anew: withdraw.py refuses a second review of what is not pending.  Two  *)
(* administrators whose reviews overlap violate it.                        *)
(***************************************************************************)
AccountDecisionIsFinal ==
  [][row.status \in {"approved", "rejected"} => row' = row \/ row'.status = "pending"]_accountVars
=============================================================================
