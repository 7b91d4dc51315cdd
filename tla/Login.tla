------------------------------- MODULE Login -------------------------------
(***************************************************************************)
(* The API key of a stdio server, from the login tool to the next server   *)
(* that starts: how login() decides to store a key and where store_api_key *)
(* puts it (server.py, tier.py), the order in which get_api_key() looks    *)
(* for one, the tools offered at the start and the key of the backend      *)
(* (tier.py, server.py, dispatch.py).  The keyring, which may be locked or *)
(* absent at any time, and the smartmemory app's setting are external; the *)
(* protected file of Windows is that of CredentialStore, one step here.    *)
(***************************************************************************)
CONSTANTS
  ApiKeys,
  Nothing,    \* no key, or an empty one
  NotBuilt,   \* no backend yet
  NotDue

ASSUME LoginAssumption == Nothing \notin ApiKeys /\ NotBuilt \notin ApiKeys \cup {Nothing}

MaybeKey == ApiKeys \cup {Nothing}

VARIABLES
  windows,   \* sys.platform
  env,       \* SMARTMEMORY_API_KEY of the server
  full,      \* SMARTMEMORY_MCP_FULL_TOOLS
  wrapped,   \* the smartmemory app's config is there
  app,       \* the key in it
  ring,      \* the entry in the keyring
  ringUp,    \* the keyring can be used
  keyFile,   \* the key file
  accepted,  \* the keys the account service accepts
  offered,   \* the tools the server registered at its start, or "down"
  uses,      \* the key its backend was built with
  attempt,   \* where the login under way is
  argument,  \* its key
  outcome,   \* what its request came to
  told,      \* its reply
  due        \* history: the key last told as logged in, and where it was put

places == <<ring, keyFile>>
setting == <<windows, env, full, wrapped>>
server == <<offered, uses>>
login == <<attempt, argument, outcome, told>>
loginVars == <<setting, app, places, ringUp, accepted, server, login, due>>

\* Mutant of KeyFound: the key file is looked at before the keyring.
MKeyFound ==
  IF env # Nothing THEN env
  ELSE IF keyFile # Nothing THEN keyFile
  ELSE IF ringUp /\ ring # Nothing THEN ring
  ELSE IF windows THEN Nothing ELSE app

\* get_api_key()
KeyFound ==
  IF env # Nothing THEN env
  ELSE IF ringUp /\ ring # Nothing THEN ring
  ELSE IF ~windows /\ app # Nothing THEN app
  ELSE keyFile

\* resolve_tier()
Tier == IF KeyFound = Nothing THEN "free" ELSE IF full THEN "pro_plus" ELSE "pro"

LoginInit ==
  /\ windows \in BOOLEAN /\ env \in MaybeKey /\ full \in BOOLEAN
  /\ wrapped \in BOOLEAN /\ app \in IF wrapped THEN MaybeKey ELSE {Nothing}
  /\ ring \in MaybeKey /\ keyFile \in MaybeKey /\ ringUp \in BOOLEAN
  /\ accepted \in SUBSET ApiKeys
  /\ offered = "down" /\ uses = NotBuilt
  /\ attempt = "none" /\ argument = Nothing /\ outcome = "none" /\ told = "none"
  /\ due = NotDue

-----------------------------------------------------------------------------
\* _register_tools(): once, as the module is loaded.
Start ==
  /\ offered = "down"
  /\ offered' = Tier
  /\ UNCHANGED <<setting, app, places, ringUp, accepted, uses, login, due>>

\* build_backend() on the first tool call: without a key and without the app it
\* raises, and the next call tries again.
BuildRemote ==
  /\ offered # "down" /\ uses = NotBuilt /\ (KeyFound # Nothing \/ wrapped)
  /\ uses' = KeyFound
  /\ UNCHANGED <<setting, app, places, ringUp, accepted, offered, login, due>>

\* The client ends the server, at any moment.
Stop ==
  /\ offered # "down"
  /\ offered' = "down" /\ uses' = NotBuilt
  /\ attempt' = "none" /\ argument' = Nothing /\ outcome' = "none" /\ told' = "none"
  /\ UNCHANGED <<setting, app, places, ringUp, accepted, due>>

\* RemoteBackend(api_key).login(api_key): an empty key stands for the environment's.
Ask(k) ==
  /\ offered # "down" /\ attempt = "none"
  /\ argument' = k /\ told' = "none"
  /\ LET sent == IF k = Nothing THEN env ELSE k IN
       outcome' \in IF sent = Nothing THEN {"no_key"}
                    ELSE {IF sent \in accepted THEN "logged_in" ELSE "rejected", "broken"}
  /\ attempt' = "answered"
  /\ UNCHANGED <<setting, app, places, ringUp, accepted, server, due>>

\* The tool's reply is the text alone when it has the word "error" in it, which
\* depends on the address, the body or the exception it quotes.
Refuse ==
  /\ attempt = "answered" /\ outcome # "no_key"
  /\ told' = IF outcome = "logged_in" THEN "not_stored" ELSE "failed"
  /\ attempt' = "none"
  /\ UNCHANGED <<setting, app, places, ringUp, accepted, server, argument, outcome, due>>

Recorded(where) ==
  /\ told' = IF outcome = "logged_in" THEN "restart" ELSE "failed"
  /\ due' = IF outcome = "logged_in" /\ argument # Nothing
            THEN [key |-> argument, where |-> where] ELSE NotDue

\* Mutant of KeepInRing: a keyring that cannot be used is taken to have stored it.
MKeepInRing ==
  /\ attempt = "answered"
  /\ ring' = IF ringUp THEN argument ELSE ring
  /\ Recorded("ring")
  /\ attempt' = "none"
  /\ UNCHANGED <<setting, app, keyFile, ringUp, accepted, server, argument, outcome>>

\* store_api_key() with the keyring.
KeepInRing ==
  /\ attempt = "answered" /\ ringUp
  /\ ring' = argument
  /\ Recorded("ring")
  /\ attempt' = "none"
  /\ UNCHANGED <<setting, app, keyFile, ringUp, accepted, server, argument, outcome>>

\* Without it, the file.
KeepInFile ==
  /\ attempt = "answered" /\ ~ringUp
  /\ keyFile' = argument
  /\ Recorded("file")
  /\ attempt' = "none"
  /\ UNCHANGED <<setting, app, ring, ringUp, accepted, server, argument, outcome>>

\* The file cannot be written.  The protected one keeps its contents; write_text()
\* may leave the old, an empty or, before chmod, the new one.
FileFails ==
  /\ attempt = "answered" /\ ~ringUp
  /\ keyFile' \in IF windows THEN {keyFile} ELSE {keyFile, Nothing, argument}
  /\ told' = "failed" /\ due' = NotDue
  /\ attempt' = "none"
  /\ UNCHANGED <<setting, app, ring, ringUp, accepted, server, argument, outcome>>

\* The keyring is locked, unlocked, or its service starts or ends.
RingChanges ==
  /\ ringUp' = ~ringUp
  /\ UNCHANGED <<setting, app, places, accepted, server, login, due>>

LoginNext ==
  \/ Start \/ BuildRemote \/ Stop
  \/ \E k \in MaybeKey : Ask(k)
  \/ Refuse \/ KeepInRing \/ KeepInFile \/ FileFails
  \/ RingChanges

LoginSpec == LoginInit /\ [][LoginNext]_loginVars

-----------------------------------------------------------------------------
\* Nothing shadows the key of the last login: no key in the environment; it is in the
\* keyring and the keyring can be used; or in the file, with no key in the keyring,
\* or that not usable, and none in the app's config.
Unshadowed ==
  /\ env = Nothing
  /\ due.where = "ring" => ringUp
  /\ due.where = "file" => (ringUp => ring = Nothing) /\ (windows \/ app = Nothing)

\* login()'s "Restart MCP server to unlock PRO tools.": a server that starts after a
\* login so told offers them, and its backend has that key, however logins that
\* are refused and changes of the keyring come between, unless another key shadows it.
LoginTakesEffect ==
  [][due # NotDue /\ Unshadowed =>
       /\ offered' # offered => offered' \in {"down", "pro", "pro_plus"}
       /\ uses' # uses => uses' \in {NotBuilt, due.key}]_loginVars
=============================================================================
