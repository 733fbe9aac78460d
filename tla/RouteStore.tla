----------------------------- MODULE RouteStore -----------------------------
(***************************************************************************)
(* The route configurations of a kernel (MultiHopConfigManager in          *)
(* multi_hop_config.go and the route commands of kernel/cmd/main.go): JSON *)
(* files in a directory, and a cache of pointers to the objects read from  *)
(* them.  A file is cached under its own name and saved under the name of  *)
(* the route inside it, so that two names can lead to one object.          *)
(*                                                                         *)
(* Timestamps and version numbers are left out.                            *)
(***************************************************************************)
EXTENDS RouteTable, SequencesExt

CONSTANTS
  Names,               \* file names, without .json
  InitialFiles,        \* the directory before the kernel is first started
  Inputs,              \* the configurations load-route is given
  NoFile,              \* no file of that name, or one that cannot be parsed
  MaxCommands          \* bound: commands about routes

\* What is read from a file that can be parsed
Parsed(c) ==
  /\ c = Config(c.route, c.hops, c.enabled)
  /\ c.route \in Names /\ c.hops \in Seq(Range(c.hops))

ASSUME StoreConstants ==
  /\ MaxCommands \in Nat /\ IsFiniteSet(Names)
  /\ InitialFiles \in [Names -> Range(InitialFiles)]
  /\ \A c \in (Range(InitialFiles) \ {NoFile}) \cup Inputs : Parsed(c)

VARIABLES
  files,               \* the directory
  objects,             \* the configurations in memory
  cache,               \* configs: the object a name leads to, 0 where there is none
  commands,            \* commands about routes so far
  writeFailed          \* a file could not be written

storeVars == <<files, objects, cache, commands, writeFailed>>

\* loadAllConfigs: LoadConfig for every file; one that cannot be parsed is passed over
Listing(fs) == SetToSeq({n \in Names : fs[n] # NoFile})
Loaded(fs) == [i \in DOMAIN Listing(fs) |-> fs[Listing(fs)[i]]]
Cached(fs) ==
  [n \in Names |-> IF fs[n] = NoFile THEN 0
                   ELSE CHOOSE i \in DOMAIN Listing(fs) : Listing(fs)[i] = n]

StoreInit ==
  /\ files = InitialFiles /\ objects = Loaded(InitialFiles) /\ cache = Cached(InitialFiles)
  /\ commands = 0 /\ writeFailed = FALSE

\* NewMultiHopConfigManager in the process that is started next
Reload ==
  /\ objects' = Loaded(files) /\ cache' = Cached(files)
  /\ UNCHANGED <<files, commands, writeFailed>>

\* LoadConfig: the object a name leads to in the cache
LoadConfig(n) == objects[cache[n]]

\* SaveConfig of object i, whose content is c: it is checked, written and cached; a write that
\* fails may leave half a file
SaveConfig(i, c) ==
  \/ /\ Complete(c)
     /\ files' = [files EXCEPT ![c.route] = c]
     /\ cache' = [cache EXCEPT ![c.route] = i]
     /\ UNCHANGED writeFailed
  \/ /\ Complete(c)
     /\ files' \in {files, [files EXCEPT ![c.route] = NoFile]}
     /\ writeFailed' = TRUE
     /\ UNCHANGED cache
  \/ ~Complete(c) /\ UNCHANGED <<files, cache, writeFailed>>

Command == commands < MaxCommands /\ commands' = commands + 1

\* handleLoadRoute: a new object for the file that was named
LoadRoute(c) ==
  /\ Command /\ Valid(c)
  /\ objects' = Append(objects, c)
  /\ SaveConfig(Len(objects'), c)

\* mutant: the object is changed when it has been saved
SetEnabledLate(n, b) ==
  /\ Command /\ cache[n] # 0
  /\ objects' = [objects EXCEPT ![cache[n]].enabled = b]
  /\ SaveConfig(cache[n], LoadConfig(n))

\* handleEnableRoute and handleDisableRoute change the cached object, and save it; if that
\* fails the object stays changed
SetEnabled(n, b) ==
  /\ Command /\ cache[n] # 0
  /\ objects' = [objects EXCEPT ![cache[n]].enabled = b]
  /\ SaveConfig(cache[n], objects'[cache[n]])

StoreNext ==
  \/ \E c \in Inputs : LoadRoute(c)
  \/ \E n \in Names, b \in BOOLEAN : SetEnabled(n, b)

-----------------------------------------------------------------------------
(* Properties *)

StoreTypeOK ==
  /\ cache \in [Names -> 0 .. Len(objects)]
  /\ \A n \in Names : files[n] = NoFile \/ files[n].route \in Names
  /\ commands \in 0 .. MaxCommands /\ writeFailed \in BOOLEAN

\* SAFETY.  The route a name shows, and by which packets are forwarded, is the one a restart
\* will find: enabling, disabling and loading, in any order and also when two names lead to
\* one object, keep file and object the same.  Not for a file with another name than its
\* route, nor one that SaveConfig refuses, nor after a write that failed.
StoredAsShown ==
  ~writeFailed => \A n \in Names :
    cache[n] # 0 /\ LoadConfig(n).route = n /\ Complete(LoadConfig(n)) => files[n] = LoadConfig(n)
=============================================================================
