---------------------------- MODULE ProviderKeys ----------------------------
(***************************************************************************)
(* The key of one provider, which administrators save: backend/api/        *)
(* providers.py and backend/security/store_db.py.                          *)
(*                                                                         *)
(* A request encrypts its key, looks for the row, writes it in a           *)
(* transaction and names it in the audit log in another one.  Requests     *)
(* overlap: the later commit has the row, and the log may have their names *)
(* in the other order.                                                     *)
(***************************************************************************)
EXTENDS Integers

CONSTANTS
  Savers,        \* requests of administrators, each with a key of its own
  MaxKeySecret   \* bound: values SECRET_KEY takes

ASSUME SaverAssumption == MaxKeySecret \in Nat \ {0} /\ "nobody" \notin Savers

VARIABLES
  keySecret,  \* SECRET_KEY of the process
  vault,      \* the row: whose key it is, and the secret it is encrypted with
  saver,      \* what each request does, and the key it brings
  replaced,   \* history: the keys that were in the row before
  audited     \* the keys the audit log names

keyVars == <<keySecret, vault, saver, replaced, audited>>

NoKey == [of |-> "nobody", secret |-> 0]

KeysInit ==
  /\ keySecret = 1
  /\ vault = NoKey
  /\ saver = [s \in Savers |-> [at |-> "idle", key |-> NoKey]]
  /\ replaced = {} /\ audited = {}

-----------------------------------------------------------------------------

Ends(s) == saver' = [saver EXCEPT ![s].at = "done"]

\* require_admin, the checks of the body, and the encryption
AskToSave(s) ==
  /\ saver[s].at = "idle"
  /\ saver' = [saver EXCEPT ![s] = [at |-> "looks", key |-> [of |-> s, secret |-> keySecret]]]
  /\ UNCHANGED <<keySecret, vault, replaced, audited>>

\* The row is there to be changed, or is to be inserted.
LookForRow(s) ==
  /\ saver[s].at = "looks"
  /\ saver' = [saver EXCEPT ![s].at = IF vault = NoKey THEN "inserts" ELSE "updates"]
  /\ UNCHANGED <<keySecret, vault, replaced, audited>>

\* A second insert fails on the primary key.
Save(s) ==
  /\ saver[s].at \in {"inserts", "updates"}
  /\ saver[s].at = "inserts" => vault = NoKey
  /\ vault' = saver[s].key
  /\ replaced' = replaced \cup {vault}
  /\ saver' = [saver EXCEPT ![s].at = "audits"]
  /\ UNCHANGED <<keySecret, audited>>

SaveFails(s) ==
  /\ saver[s].at \in {"looks", "inserts", "updates"}
  /\ Ends(s)
  /\ UNCHANGED <<keySecret, vault, replaced, audited>>

\* A slip: the log is written on the way, whatever becomes of the commit.
AuditAnyway(s) ==
  /\ saver[s].at \in {"inserts", "updates", "audits"}
  /\ Ends(s)
  /\ audited' = audited \cup {saver[s].key}
  /\ UNCHANGED <<keySecret, vault, replaced>>

\* In a session of its own, whose failure is ignored.
AuditSave(s) ==
  /\ saver[s].at = "audits"
  /\ Ends(s)
  /\ \E logged \in {{}, {saver[s].key}} : audited' = audited \cup logged
  /\ UNCHANGED <<keySecret, vault, replaced>>

\* What _load_api_key finds when neither the process nor the environment has a key.
KeyInUse == IF vault # NoKey /\ vault.secret = keySecret THEN vault ELSE NoKey

\* The process starts anew, with another SECRET_KEY or the same.
Restart ==
  /\ \E secret \in {keySecret, keySecret + 1} \cap 1..MaxKeySecret : keySecret' = secret
  /\ saver' = [s \in Savers |->
       IF saver[s].at = "idle" THEN saver[s] ELSE [saver[s] EXCEPT !.at = "done"]]
  /\ UNCHANGED <<vault, replaced, audited>>

KeysNext ==
  \/ \E s \in Savers :
       AskToSave(s) \/ LookForRow(s) \/ Save(s) \/ SaveFails(s) \/ AuditSave(s)
  \/ Restart

KeysSpec == KeysInit /\ [][KeysNext]_keyVars

-----------------------------------------------------------------------------
(* Properties.                                                             *)

\* What the audit log says was saved was in the row, and is still there, usable but
\* for another SECRET_KEY, unless a later commit has replaced it, in whatever order
\* the two are logged (save_provider_key).
AuditedIsSaved ==
  \A saved \in audited :
    \/ saved \in replaced
    \/ vault = saved /\ (saved.secret = keySecret => KeyInUse = saved)
=============================================================================
