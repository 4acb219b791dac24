----------------------------- MODULE AppModule -----------------------------
(***************************************************************************)
(* The life of the module app_unimrcp (app-unimrcp/app_unimrcp.c, with the *)
(* load and unload functions of the three applications), composed with the *)
(* datastore of a caller: what is loaded, what Asterisk can call, and what *)
(* a call meets while the module is being loaded or unloaded.              *)
(*                                                                         *)
(* The module is loaded by one thread and the caller is another.  Asterisk *)
(* begins to unload a module only while no application of it runs, but     *)
(* lets calls in until they are unregistered (external).                   *)
(***************************************************************************)
EXTENDS AppDatastore

CONSTANT MaxLoads  \* bound: times the module is loaded

ASSUME LoadsAssumption == MaxLoads \in Nat \ {0}

VARIABLES
  mpc,         \* where load_module or unload_module is
  apr,         \* apr_initialized
  glob,        \* the globals are there
  client,      \* globals.mrcp_client
  linked,      \* the applications whose static pointer is set
  hash,        \* globals.apps
  toRegister,  \* load_module: what is left of its loop over globals.apps
  registered,  \* the applications Asterisk knows
  functions,   \* the functions RECOG_INPUT() and the others are registered
  loads,       \* loads begun
  refused,     \* history: applications the client did not take in this load
  declined,    \* history: a load was declined with applications linked
  stale        \* history: the module was unloaded under a caller

hostVars == <<apr, glob, client>>
appVars == <<linked, hash, refused>>
regVars == <<toRegister, registered, functions>>
pastVars == <<loads, declined, stale>>
modVars == <<mpc, hostVars, appVars, regVars, pastVars>>
vars == <<dsVars, modVars>>

ModStates ==
  {"out", "config", "client", "apps", "start", "register", "in", "failed",
   "unregister", "unlink", "shutdown"}

ModDataOK ==
  /\ mpc \in ModStates
  /\ client \in {"none", "created", "started"}
  /\ linked \subseteq Apps /\ hash \subseteq Apps /\ refused \subseteq Apps
  /\ registered \subseteq Apps /\ toRegister \subseteq Apps
  /\ loads \in 0..MaxLoads

ModFlagsOK ==
  /\ apr \in BOOLEAN /\ glob \in BOOLEAN /\ functions \in BOOLEAN
  /\ declined \in BOOLEAN /\ stale \in BOOLEAN

ModTypeOK == DsTypeOK /\ ModDataOK /\ ModFlagsOK

Init ==
  /\ DsInit
  /\ mpc = "out" /\ apr = FALSE /\ glob = FALSE /\ client = "none"
  /\ linked = {} /\ hash = {} /\ refused = {}
  /\ toRegister = {} /\ registered = {} /\ functions = FALSE
  /\ loads = 0 /\ declined = FALSE /\ stale = FALSE

-----------------------------------------------------------------------------
(* load_module.                                                            *)

\* A step of the module's thread from a to b.
Moves(a, b) == mpc = a /\ mpc' = b /\ apc # "crashed" /\ UNCHANGED dsVars

\* The way out of a load that fails: the client and the globals are destroyed.
Declines(a) ==
  /\ Moves(a, "out")
  /\ apr' = FALSE /\ glob' = FALSE /\ client' = "none" /\ hash' = {}
  /\ declined' = (declined \/ linked # {})
  /\ UNCHANGED <<linked, refused, regVars, loads, stale>>

\* apr_initialize and globals_init, each of which may fail.
LoadGlobals ==
  /\ loads < MaxLoads /\ loads' = loads + 1
  /\ \/ Moves("out", "config") /\ apr' = TRUE /\ glob' = TRUE
     \/ Moves("out", "out") /\ apr' = FALSE /\ UNCHANGED glob
  /\ UNCHANGED <<client, appVars, regVars, declined, stale>>

\* load_mrcp_config: there is no file, or no default profile in it.
LoadConfig ==
  \/ Declines("config")
  \/ Moves("config", "client") /\ UNCHANGED <<hostVars, appVars, regVars, pastVars>>

\* mod_unimrcp_client_create, which fails on a profile it cannot set up.
CreateClient ==
  \/ Declines("client")
  \/ /\ Moves("client", "apps") /\ client' = "created"
     /\ UNCHANGED <<apr, glob, appVars, regVars, pastVars>>

\* load_mrcpsynth_app, load_mrcprecog_app and load_synthandrecog_app: one that
\* is already linked is left out, another the client may refuse, and what the
\* three return is not looked at.
LoadApps ==
  /\ Moves("apps", "start")
  /\ \E taken \in SUBSET (Apps \ linked) :
       /\ linked' = linked \cup taken /\ hash' = taken
       /\ refused' = (Apps \ linked) \ taken
  /\ UNCHANGED <<hostVars, regVars, pastVars>>

\* Mutant of StartClient: a client that does not start is not noticed.
StartClientIgnored ==
  /\ Moves("start", "register") /\ client' \in {"created", "started"}
  /\ toRegister' = hash
  /\ UNCHANGED <<apr, glob, appVars, registered, functions, pastVars>>

\* mrcp_client_start.  If it fails the applications stay linked.
StartClient ==
  \/ Declines("start")
  \/ /\ Moves("start", "register") /\ client' = "started"
     /\ toRegister' = hash
     /\ UNCHANGED <<apr, glob, appVars, registered, functions, pastVars>>

\* ast_register_application for one of globals.apps; it may fail.
RegisterApp(a) ==
  /\ a \in toRegister /\ Moves("register", "register")
  /\ toRegister' = toRegister \ {a}
  /\ registered' = registered \cup {a} \/ UNCHANGED registered
  /\ UNCHANGED <<functions, hostVars, appVars, pastVars>>

\* app_datastore_functions_register, and load_module returns: with an error if
\* anything could not be registered, and then all the rest stays as it is.
RegisterFunctions ==
  /\ toRegister = {}
  /\ \/ Moves("register", "in") /\ registered = hash /\ functions' = TRUE
     \/ Moves("register", "failed") /\ functions' \in BOOLEAN
        /\ (functions' => registered # hash)
  /\ UNCHANGED <<toRegister, registered, hostVars, appVars, pastVars>>

-----------------------------------------------------------------------------
(* unload_module.                                                          *)

\* Asterisk unloads the module if nothing of it is in use.
Unload ==
  /\ app = "none" /\ Moves("in", "unregister")
  /\ UNCHANGED <<hostVars, appVars, regVars, pastVars>>

\* ast_unregister_application for one of globals.apps.
UnregisterApp(a) ==
  /\ a \in registered /\ Moves("unregister", "unregister")
  /\ registered' = registered \ {a}
  /\ UNCHANGED <<toRegister, functions, hostVars, appVars, pastVars>>

UnregisterFunctions ==
  /\ registered = {} /\ Moves("unregister", "unlink")
  /\ functions' = FALSE
  /\ UNCHANGED <<toRegister, registered, hostVars, appVars, pastVars>>

\* Mutant of UnloadApps: the pointers are not cleared.
UnloadAppsKeeps ==
  /\ Moves("unlink", "shutdown")
  /\ hash' = hash \ linked
  /\ UNCHANGED <<linked, refused, hostVars, regVars, pastVars>>

\* unload_mrcpsynth_app, unload_mrcprecog_app and unload_synthandrecog_app.
UnloadApps ==
  /\ Moves("unlink", "shutdown")
  /\ hash' = hash \ linked /\ linked' = {} /\ declined' = FALSE
  /\ UNCHANGED <<refused, hostVars, regVars, loads, stale>>

\* mrcp_client_shutdown, mrcp_client_destroy, globals_destroy, apr_terminate;
\* Asterisk takes the code out.  apr is kept if something could not be unregistered;
\* but Unload begins where everything is registered, so all of it can.
Shutdown ==
  /\ Moves("shutdown", "out")
  /\ client' = "none" /\ glob' = FALSE /\ apr' = FALSE /\ hash' = {}
  /\ stale' = (stale \/ store \/ app # "none")
  /\ UNCHANGED <<linked, refused, regVars, loads, declined>>

Load ==
  \/ LoadGlobals \/ LoadConfig \/ CreateClient \/ LoadApps \/ StartClient
  \/ (\E a \in Apps : RegisterApp(a)) \/ RegisterFunctions

Leave ==
  \/ Unload \/ (\E a \in Apps : UnregisterApp(a)) \/ UnregisterFunctions
  \/ UnloadApps \/ Shutdown

-----------------------------------------------------------------------------
(* The caller.                                                             *)

\* The dialplan finds only what is registered.  A speech channel is created
\* for the application its static pointer tells; a caller whose module went
\* away goes no further.
Call ==
  /\ ~stale
  /\ \/ registered # {} /\ ExecFails
     \/ \E a \in registered, e \in Entries : Exec(a, e)
     \/ app \in linked /\ Creates
     \/ GoesOn
     \/ HangUp
  /\ UNCHANGED modVars

\* A run whose application was unlinked creates a channel for no application,
\* and a hangup calls the destructor of a datastore the module left behind.
CallMeetsUnload ==
  /\ stale \/ (NeedsObject /\ app \notin linked)
  /\ Crash
  /\ UNCHANGED modVars

Next == Load \/ Leave \/ Call \/ CallMeetsUnload

Spec == Init /\ [][Next]_vars

-----------------------------------------------------------------------------
(* What the module promises.                                               *)

\* Asterisk can call an application only while the globals are there and the
\* client is started for it, and through every load that fails half-way and
\* every unload: registered last and unregistered first.
RegisteredIsServed ==
  registered # {} => glob /\ client = "started" /\ registered \subseteq hash \cap linked

\* load_module returns with success only if every application the client took
\* is registered, after any number of loads and unloads; and a module that is
\* out has left nothing.  The exception is a load declined after the
\* applications were linked: the next one leaves them out.
LoadIsAllOrNothing ==
  /\ mpc = "in" /\ ~declined => functions /\ registered = Apps \ refused
  /\ mpc = "out" => /\ registered = {} /\ ~functions /\ hash = {}
                    /\ client = "none" /\ ~glob /\ ~apr
=============================================================================
