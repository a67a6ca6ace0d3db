---------------------------- MODULE Connections -----------------------------
(***************************************************************************)
(* Connections to model providers: the profiles and their revisions as the *)
(* host validates and publishes them, and the ChatGPT credentials.         *)
(***************************************************************************)
EXTENDS Naturals, Sequences, FiniteSets, FiniteSetsExt

-----------------------------------------------------------------------------
(***************************************************************************)
(* The Connection Service: provider profiles kept in connections.toml and   *)
(* shared with other instances, native login requests, and the registry of  *)
(* callable providers it publishes in /mnt/llm.  A command changes the      *)
(* state under one mutex, saves it if the file is still the one it started  *)
(* from, and then republishes the callables under a second, asynchronous    *)
(* lock; commands and republications interleave.  A profile's settings and  *)
(* the credential metadata it names are one revision.                       *)
(***************************************************************************)

CONSTANTS
    Profiles,   \* profile identifiers
    Evaluators, \* those whose provider only evaluates choices
    Managed,    \* the profile whose provider has a catalog to discover (ChatGPT)
    Revisions,  \* contents of a profile
    Pids,       \* processes with a selection
    Workers,    \* commands and readers in flight
    MaxRequests,\* MAX_PENDING_NATIVE_REQUESTS
    MaxSlots,   \* bound: catalog publications
    None

VARIABLES
    disk,       \* connections.toml: [profiles, default]
    conn,       \* the instance's copy, state.connections
    selections, \* state.selections
    requests,   \* pending native requests of each profile
    native,     \* state.native_status
    validation, \* state.validation
    pc,         \* what each worker is doing
    snap,       \* the snapshot a republication works from
    published,  \* registry.published_profiles: the revision of the live client
    default,    \* registry.published_default
    bootstrap,  \* the injected client: "held", "published" (a fallback), "gone"
    catalogs,   \* registry.published_catalogs: None or the slot of the profile
    slots       \* every slot made, with its value once discovered

connectionVars == <<disk, conn, selections, requests, native, validation, pc, snap,
                    published, default, bootstrap, catalogs, slots>>

registryVars == <<published, default, bootstrap, catalogs, slots>>

File == [profiles : [Profiles -> Revisions \union {None}], default : Profiles \union {None}]

Installed(file) == {p \in Profiles : file.profiles[p] # None}
Generators(file) == Installed(file) \ Evaluators
Nobody == [p \in Profiles |-> None]

\* validate_connections: the default exists and can generate.
Valid(file) == file.default \in Generators(file) \union {None}

ConnectionInit ==
    /\ disk = [profiles |-> Nobody, default |-> None] /\ conn = disk
    /\ selections = [i \in Pids |-> None]
    /\ requests = [p \in Profiles |-> 0] /\ native = Nobody /\ validation = Nobody
    /\ pc = [w \in Workers |-> "idle"] /\ snap = [w \in Workers |-> None]
    /\ published = Nobody /\ default = None /\ bootstrap = "held"
    /\ catalogs = Nobody /\ slots = <<>>

----
\* State::replace_connections: what depends on a changed profile is dropped.
ReplaceConnections(file) ==
    LET same == {p \in Installed(file) : conn.profiles[p] = file.profiles[p]}
    IN  /\ conn' = file
        /\ selections' = [i \in Pids |->
               IF selections[i] \in Generators(file) THEN selections[i] ELSE None]
        /\ requests' = [p \in Profiles |-> IF p \in same THEN requests[p] ELSE 0]
        /\ native' = [p \in Profiles |-> IF p \in same THEN native[p] ELSE None]
        /\ validation' = [p \in Profiles |->
               IF p \in same /\ validation[p] # None THEN validation[p]
               ELSE IF p \in Installed(file) THEN "unavailable" ELSE None]

\* The candidate state of each persisting command, without its selections.
Edited(file) ==
    {f \in File : Valid(f) /\ f # file}                            \* replace_metadata
Added(file) ==
    {[file EXCEPT !.profiles[p] = r] : p \in Profiles \ Installed(file), r \in Revisions}
Defaulted(file) ==
    {[file EXCEPT !.default = p] : p \in Generators(file) \union {None}}
Removed(file) ==
    {[profiles |-> [file.profiles EXCEPT ![p] = None],
      default |-> IF file.default = p THEN None ELSE file.default] : p \in Installed(file)}

\* apply on a persisting command.  save_if_unchanged fails on a file another
\* instance has replaced, may fail before the rename, and may fail after it;
\* publish_saved_state then goes by what the file says.
Save(w, candidate) ==
    /\ pc[w] = "idle"
    /\ \/ disk = conn /\ disk' = candidate
       \/ UNCHANGED disk
    /\ ReplaceConnections(disk')
    /\ pc' = [pc EXCEPT ![w] = "refresh"]
    /\ UNCHANGED <<snap, registryVars>>

ReplaceMetadata(w) == \E f \in Edited(conn) : Save(w, f)
AddProfile(w) == \E f \in Added(conn) : Save(w, f)
SetDefault(w) == \E f \in Defaulted(conn) : Save(w, f)
RemoveProfile(w) == \E f \in Removed(conn) : Save(w, f)

\* Another instance commits its own command.
OtherInstance ==
    /\ \E f \in Added(disk) \union Removed(disk) \union Defaulted(disk) : disk' = f
    /\ UNCHANGED <<conn, selections, requests, native, validation, pc, snap, registryVars>>

\* apply(Select), and select at spawn: no save, no republication.
Select(i) ==
    /\ \E p \in Generators(conn) : selections' = [selections EXCEPT ![i] = p]
    /\ UNCHANGED <<disk, conn, requests, native, validation, pc, snap, registryVars>>

ReleaseProcess(i) ==
    /\ selections' = [selections EXCEPT ![i] = None]
    /\ UNCHANGED <<disk, conn, requests, native, validation, pc, snap, registryVars>>

\* apply(RequestNative).
RequestNative(w) ==
    /\ pc[w] = "idle" /\ MapThenSumSet(LAMBDA p : requests[p], Profiles) < MaxRequests
    /\ \E p \in Installed(conn) : requests' = [requests EXCEPT ![p] = @ + 1]
    /\ pc' = [pc EXCEPT ![w] = "refresh"]
    /\ UNCHANGED <<disk, conn, selections, native, validation, snap, registryVars>>

RespondNative(w) ==
    /\ pc[w] = "idle"
    /\ \E p \in Profiles, s \in {"ready", "logged_out", "failed"} :
        /\ requests[p] > 0
        /\ requests' = [requests EXCEPT ![p] = @ - 1]
        /\ native' = [native EXCEPT ![p] = s]
    /\ pc' = [pc EXCEPT ![w] = "refresh"]
    /\ UNCHANGED <<disk, conn, selections, validation, snap, registryVars>>

\* refresh, at the start of every read and capture.
Refresh(w) ==
    /\ pc[w] = "idle"
    /\ IF disk # conn THEN ReplaceConnections(disk)
       ELSE UNCHANGED <<conn, selections, requests, native, validation>>
    /\ pc' = [pc EXCEPT ![w] = "refresh"]
    /\ UNCHANGED <<disk, snap, registryVars>>

----
\* refresh_callables: the registry lock is taken, then the state is read.
MutRefreshCallables(w) ==
    /\ pc[w] = "refresh"
    /\ pc' = [pc EXCEPT ![w] = "publish"]
    /\ snap' = [snap EXCEPT ![w] = [file |-> conn, pending |-> {p \in Profiles : requests[p] > 0}, native |-> native]]
    /\ UNCHANGED <<disk, conn, selections, requests, native, validation, registryVars>>

RefreshCallables(w) ==
    /\ pc[w] = "refresh" /\ \A v \in Workers : pc[v] # "publish"
    /\ pc' = [pc EXCEPT ![w] = "publish"]
    /\ snap' = [snap EXCEPT ![w] = [file |-> conn, pending |-> {p \in Profiles : requests[p] > 0}, native |-> native]]
    /\ UNCHANGED <<disk, conn, selections, requests, native, validation, registryVars>>

Ready(s) ==
    {p \in Installed(s.file) \ s.pending : s.native[p] \notin {"logged_out", "failed"}}

\* A client whose profile is gone, not ready or changed is unregistered.
Stale(s) ==
    {p \in Profiles : published[p] # None
                      /\ (p \notin Ready(s) \/ s.file.profiles[p] # published[p])}

\* The rest of refresh_callables.  The Host factory may fail to build a client
\* (no secret, no login); the state may have changed since the snapshot.
Publish(w) ==
    LET s == snap[w]
        kept == {p \in Profiles : published[p] # None} \ Stale(s)
    IN  /\ pc[w] = "publish"
        /\ \E built \in SUBSET (Ready(s) \ kept) :
            LET live == kept \union built
                named == IF s.file.default \in live THEN s.file.default ELSE None
                undiscovered == Managed \in live /\ (Managed \notin kept \/ catalogs[Managed] = None)
            IN  /\ published' = [p \in Profiles |-> IF p \in live THEN s.file.profiles[p] ELSE None]
                /\ default' = named
                /\ bootstrap' =
                       IF named # default /\ bootstrap = "published" THEN "gone"
                       ELSE IF bootstrap = "held" /\ named = None THEN "published"
                       ELSE bootstrap
                /\ validation' = [p \in Profiles |->
                       IF p \notin Installed(s.file) THEN None
                       ELSE IF p \in s.pending THEN "pending"
                       ELSE IF s.native[p] = "logged_out" THEN "logged_out"
                       ELSE IF p \in live THEN "ready" ELSE "unavailable"]
                /\ IF undiscovered /\ Len(slots) < MaxSlots
                   THEN /\ slots' = Append(slots, None)
                        /\ catalogs' = [catalogs EXCEPT ![Managed] = Len(slots) + 1]
                        /\ snap' = [snap EXCEPT ![w] = [slot |-> Len(slots) + 1, rev |-> None]]
                        /\ pc' = [pc EXCEPT ![w] = "discover"]
                   ELSE /\ catalogs' = IF Managed \in kept THEN catalogs ELSE Nobody
                        /\ snap' = [snap EXCEPT ![w] = None]
                        /\ pc' = [pc EXCEPT ![w] = "idle"]
                        /\ UNCHANGED slots
        /\ UNCHANGED <<disk, conn, selections, requests, native>>

Settle(w, value) ==
    /\ slots' = [slots EXCEPT ![snap[w].slot] = value]
    /\ snap' = [snap EXCEPT ![w] = None]
    /\ pc' = [pc EXCEPT ![w] = "idle"]

\* discover_catalog, under the registry lock: the slot must still be the
\* profile's and the client the one of the present metadata.
DiscoverCatalog(w) ==
    /\ pc[w] = "discover" /\ \A v \in Workers : pc[v] # "publish"
    /\ IF /\ catalogs[Managed] = snap[w].slot
          /\ published[Managed] = conn.profiles[Managed] /\ published[Managed] # None
       THEN /\ snap' = [snap EXCEPT ![w].rev = published[Managed]]
            /\ pc' = [pc EXCEPT ![w] = "fetch"]
            /\ UNCHANGED slots
       ELSE Settle(w, "failed")
    /\ UNCHANGED <<disk, conn, selections, requests, native, validation,
                   published, default, bootstrap, catalogs>>

\* The provider answered, or did not; no lock is held.
Discovered(w) ==
    /\ pc[w] = "fetch"
    /\ \E value \in {snap[w].rev, "failed"} : Settle(w, value)
    /\ UNCHANGED <<disk, conn, selections, requests, native, validation,
                   published, default, bootstrap, catalogs>>

\* capture_model with a model: a settled failure of the catalog is forgotten,
\* so that the refresh that follows asks again.
RetryCatalog(w) ==
    /\ pc[w] = "idle" /\ \A v \in Workers : pc[v] # "publish"
    /\ catalogs[Managed] # None /\ slots[catalogs[Managed]] = "failed"
    /\ catalogs' = Nobody
    /\ pc' = [pc EXCEPT ![w] = "refresh"]
    /\ UNCHANGED <<disk, conn, selections, requests, native, validation, snap,
                   published, default, bootstrap, slots>>

\* The rest of capture_model: the client of a process, the revision it can be
\* restored with and the catalog that authorizes its model.
Capturable(p) ==
    /\ \A v \in Workers : pc[v] # "publish"
    /\ p \in Generators(conn) /\ published[p] = conn.profiles[p]

CaptureModel(p) ==
    [client |-> published[p], revision |-> conn.profiles[p],
     catalog |-> IF catalogs[p] = None THEN None ELSE slots[catalogs[p]]]

ConnectionNext ==
    \/ OtherInstance
    \/ \E i \in Pids : Select(i) \/ ReleaseProcess(i)
    \/ \E w \in Workers :
        \/ ReplaceMetadata(w) \/ AddProfile(w) \/ SetDefault(w) \/ RemoveProfile(w)
        \/ RequestNative(w) \/ RespondNative(w) \/ Refresh(w)
        \/ RefreshCallables(w) \/ Publish(w)
        \/ DiscoverCatalog(w) \/ Discovered(w) \/ RetryCatalog(w)

ConnectionSpec == ConnectionInit /\ [][ConnectionNext]_connectionVars

----
Settled == \A w \in Workers : pc[w] \notin {"refresh", "publish"}

\* Once no republication is owed, a profile is callable exactly when it is
\* reported ready, the live client is the one of the profile's present
\* revision, and no login is pending or refused; the default and every
\* selection name a profile that can generate.
PublishedIsConfigured ==
    Settled =>
        /\ \A p \in Profiles :
            /\ (published[p] # None) = (validation[p] = "ready")
            /\ published[p] # None =>
                /\ published[p] = conn.profiles[p]
                /\ requests[p] = 0 /\ native[p] \notin {"logged_out", "failed"}
        /\ default \in {conn.default, None}
        /\ \A i \in Pids : selections[i] \in Generators(conn) \union {None}

\* A catalog never authorizes models of another revision of its profile: an
\* answer that arrives after the profile was replaced lands in a slot nobody
\* reads.
CatalogIsOfItsProfile ==
    LET slot == catalogs[Managed] IN
    slot # None => slots[slot] \in {None, "failed", published[Managed]}

\* Both, and a captured process holds a client, a revision and a catalog that
\* belong together.
ConnectionsAreCurrent ==
    /\ PublishedIsConfigured
    /\ CatalogIsOfItsProfile
    /\ \A p \in Profiles : Capturable(p) =>
        LET c == CaptureModel(p) IN
        c.client = c.revision /\ c.catalog \in {None, "failed", c.revision}

-----------------------------------------------------------------------------
(***************************************************************************)
(* Managed ChatGPT credentials (crates/auth): one auth.json shared by every *)
(* process of the installation.  Requests load it, refresh it under         *)
(* auth.refresh.lock with one HTTP exchange in between, and save with a     *)
(* compare under auth.json.lock; logins and logouts overwrite it.  Tokens   *)
(* are numbers in the order the issuer handed them out.                     *)
(***************************************************************************)

CONSTANTS
    Clients,    \* callers of an auth manager, in one process or in several
    Accounts,   \* ChatGPT accounts (workspaces) 
    MaxToken    \* bound: tokens issued

VARIABLES
    store,      \* auth.json: None or [account, access, refresh]
    holder,     \* who holds auth.refresh.lock
    step,         \* where each client is
    bound,      \* the account a callable was bound to when it was built
    loaded,     \* what the client loaded before it waited for the lock
    reply,      \* the tokens an exchange returned, not yet saved
    granted,    \* what the last request was given
    issued,     \* tokens handed out so far
    rotated,    \* ghost: refresh tokens whose replacement was received
    unsaved,    \* ghost: rotated tokens whose replacement could not be saved
    decided     \* ghost: the account of the last login, None after a logout

authVars == <<store, holder, step, bound, loaded, reply, granted, issued, rotated, unsaved, decided>>

Auth == [account : Accounts, access : 1..MaxToken, refresh : 1..MaxToken]

AuthInit ==
    /\ store = None /\ holder = None /\ issued = 0 /\ decided = None
    /\ step = [c \in Clients |-> "idle"]
    /\ bound = [c \in Clients |-> None]
    /\ loaded = [c \in Clients |-> None]
    /\ reply = [c \in Clients |-> None]
    /\ granted = [c \in Clients |-> None]
    /\ rotated = {} /\ unsaved = {}

----
\* The client is done: a failed or finished call, its file lock released.
Rest(c) ==
    /\ step' = [step EXCEPT ![c] = "idle"]
    /\ loaded' = [loaded EXCEPT ![c] = None]
    /\ reply' = [reply EXCEPT ![c] = None]
    /\ holder' = IF holder = c THEN None ELSE holder

\* ensure_expected_account_matches on the credentials about to be used.
Allowed(c, auth) == bound[c] = auth.account

\* request_auth_for_account returns: the credentials, or WorkspaceMismatch.
Give(c, auth) ==
    /\ granted' = [granted EXCEPT ![c] = IF Allowed(c, auth) THEN auth ELSE None]
    /\ Rest(c)

\* A callable is built: it stays bound to the account stored now, if any.
Bind(c) ==
    /\ step[c] = "idle"
    /\ bound' = [bound EXCEPT ![c] = IF store = None THEN None ELSE store.account]
    /\ granted' = [granted EXCEPT ![c] = None]
    /\ UNCHANGED <<store, holder, step, loaded, reply, issued, rotated, unsaved, decided>>

\* refresh_if_needed, no refresh due.
RequestFresh(c) ==
    /\ step[c] = "idle" /\ bound[c] # None /\ store # None
    /\ Give(c, store)
    /\ UNCHANGED <<store, bound, issued, rotated, unsaved, decided>>

\* refresh_if_needed, the token is near its end or a 401 forces a refresh.
RequestStale(c) ==
    /\ step[c] = "idle" /\ bound[c] # None /\ store # None
    /\ step' = [step EXCEPT ![c] = "lock"]
    /\ loaded' = [loaded EXCEPT ![c] = store]
    /\ UNCHANGED <<store, holder, bound, reply, granted, issued, rotated, unsaved, decided>>


Locked(c) ==
    /\ step[c] = "lock" /\ holder = None
    /\ \/ /\ store = None
          /\ Rest(c) /\ UNCHANGED <<granted>>
       \/ /\ store # None /\ store # loaded[c]
          /\ Give(c, store)
       \/ /\ store # None /\ store = loaded[c]
          /\ holder' = c
          /\ step' = [step EXCEPT ![c] = "sent"]
          /\ UNCHANGED <<loaded, reply, granted>>
    /\ UNCHANGED <<store, bound, issued, rotated, unsaved, decided>>

\* refresh_inner: the issuer answers with a new access token, and a new
\* refresh token or none.
Refreshed(c) ==
    /\ step[c] = "sent" /\ issued < MaxToken
    /\ \E rotates \in BOOLEAN :
        /\ reply' = [reply EXCEPT ![c] =
               [account |-> loaded[c].account, access |-> issued + 1,
                refresh |-> IF rotates THEN issued + 1 ELSE loaded[c].refresh]]
        /\ rotated' = IF rotates THEN rotated \union {loaded[c].refresh} ELSE rotated
    /\ issued' = issued + 1
    /\ step' = [step EXCEPT ![c] = "save"]
    /\ UNCHANGED <<store, holder, bound, loaded, granted, unsaved, decided>>

\* refresh_inner: an error status, a timeout, an answer that does not parse.
RefreshFails(c) ==
    /\ step[c] = "sent"
    /\ Rest(c)
    /\ UNCHANGED <<store, bound, granted, issued, rotated, unsaved, decided>>

\* save_if_unchanged: the answer is stored only over what it was asked for.
MutSaveIfUnchanged(c) ==
    /\ step[c] = "save"
    /\ store' = reply[c] /\ Give(c, reply[c])
    /\ UNCHANGED <<bound, issued, rotated, unsaved, decided>>

SaveIfUnchanged(c) ==
    /\ step[c] = "save"
    /\ \/ /\ store = loaded[c]
          /\ store' = reply[c]
          /\ Give(c, reply[c])
       \/ /\ store # loaded[c]
          /\ Rest(c) /\ UNCHANGED <<store, granted>>
    /\ UNCHANGED <<bound, issued, rotated, unsaved, decided>>

\* save_locked fails, or the process dies: flock goes with it, what it had
\* received is gone.
Lose(c) ==
    /\ step[c] # "idle"
    /\ unsaved' = IF step[c] = "save" THEN unsaved \union {loaded[c].refresh} ELSE unsaved
    /\ Rest(c)
    /\ UNCHANGED <<store, bound, granted, issued, rotated, decided>>

----
\* login_with_browser / the device code: the caller waits for the user.
StartLogin(c) ==
    /\ step[c] = "idle"
    /\ step' = [step EXCEPT ![c] = "callback"]
    /\ UNCHANGED <<store, holder, bound, loaded, reply, granted, issued, rotated, unsaved, decided>>

\* wait_for_browser_callback / complete_device_code: refused, expired, a
\* callback of another attempt.
LoginFails(c) ==
    /\ step[c] \in {"callback", "exchanged"}
    /\ Rest(c)
    /\ UNCHANGED <<store, bound, granted, issued, rotated, unsaved, decided>>

\* exchange_code_for_tokens.
Exchange(c) ==
    /\ step[c] = "callback" /\ issued < MaxToken
    /\ \E account \in Accounts :
        reply' = [reply EXCEPT ![c] =
            [account |-> account, access |-> issued + 1, refresh |-> issued + 1]]
    /\ issued' = issued + 1
    /\ step' = [step EXCEPT ![c] = "exchanged"]
    /\ UNCHANGED <<store, holder, bound, loaded, granted, rotated, unsaved, decided>>

\* persist_tokens: whatever is stored is replaced.
PersistTokens(c) ==
    /\ step[c] = "exchanged"
    /\ store' = reply[c] /\ decided' = reply[c].account
    /\ Rest(c)
    /\ UNCHANGED <<bound, granted, issued, rotated, unsaved>>

\* logout: clear_chatgpt under auth.json.lock, whoever refreshes.
Logout ==
    /\ store # None
    /\ store' = None /\ decided' = None
    /\ UNCHANGED <<holder, step, bound, loaded, reply, granted, issued, rotated, unsaved>>

AuthNext ==
    \/ Logout
    \/ \E c \in Clients :
        \/ Bind(c) \/ RequestFresh(c) \/ RequestStale(c) \/ Locked(c)
        \/ Refreshed(c) \/ RefreshFails(c) \/ SaveIfUnchanged(c) \/ Lose(c)
        \/ StartLogin(c) \/ LoginFails(c) \/ Exchange(c) \/ PersistTokens(c)

AuthSpec == AuthInit /\ [][AuthNext]_authVars

----
\* auth.json always says what the last login or logout said: a refresh that
\* was under way neither undoes a logout nor brings the old account back.
DecisionStands == IF store = None THEN decided = None ELSE store.account = decided

\* No refresh token is sent after its replacement was received, unless the
\* replacement could not be saved: refreshes of several processes queue on the
\* lock file and read the store again.
SpentOnce ==
    \A c \in Clients : step[c] = "sent" =>
        loaded[c].refresh \notin rotated \ unsaved

\* Managed credentials hold their meaning: both of the above, and nobody is
\* given the credentials of an account its callable is not bound to.
CredentialsHold ==
    /\ DecisionStands
    /\ SpentOnce
    /\ \A c \in Clients : granted[c] # None => granted[c].account = bound[c]
=============================================================================
