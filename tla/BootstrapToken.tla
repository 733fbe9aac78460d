--------------------------- MODULE BootstrapToken ---------------------------
(***************************************************************************)
(* Bootstrap tokens: the one-time codes a connector shows to get its       *)
(* certificate.  Three actors share bootstrap_tokens.yaml:                 *)
(*                                                                         *)
(*  - the kernel, whose RegisterConnector handlers                         *)
(*    (kernel/server/identity_service.go) run concurrently on the          *)
(*    TokenManager loaded at start-up (kernel/control/bootstrap_token.go); *)
(*  - the administrator's "kernel token" command, a process of its own     *)
(*    that loads the file, changes it and writes it back                   *)
(*    (kernel/cmd/main.go, handleTokenCommand);                            *)
(*  - the environment, which crashes and restarts the kernel and lets      *)
(*    time pass.                                                           *)
(*                                                                         *)
(* TokenManager methods change the configuration under m.mu but save it    *)
(* after the unlock: saveConfig marshals whatever the shared configuration *)
(* then is, and os.WriteFile empties the file before it writes.  Each of   *)
(* these is a step.  Of two overlapping writes the last one wins.          *)
(***************************************************************************)
EXTENDS Naturals, FiniteSets

CONSTANTS
  Tokens,              \* token codes GenerateBootstrapTokenCode can return
  Connectors,          \* connectors that may ask for a certificate
  NoConnector,         \* binding of a token that is bound to nobody
  NoToken,             \* the code of a registration that needed none
  MaxInFlight,         \* bound: registrations in progress at the same time
  CliWhileServing      \* may the administrator use the command while the kernel runs?

ASSUME TokenConstants ==
  /\ IsFiniteSet(Connectors)
  /\ NoToken \notin Tokens /\ NoConnector \notin Connectors
  /\ MaxInFlight \in Nat /\ CliWhileServing \in BOOLEAN

VARIABLES
  up,           \* the kernel process runs
  mem,          \* TokenManager.config of the kernel
  file,         \* what bootstrap_tokens.yaml holds
  generated,    \* token codes handed out so far
  binding,      \* BootstrapToken.ConnectorID, fixed when the token is generated
  expired,      \* tokens whose ExpiresAt has passed
  reg,          \* RegisterConnector handler of each connector
  cli,          \* the "kernel token" process
  registered,   \* connectors in the kernel's in-memory Registry
  delivered,    \* connectors that were sent a certificate, by the token they showed
  revoked       \* tokens the command reported as revoked

vars == <<up, mem, file, generated, binding, expired, reg, cli, registered, delivered,
          revoked>>

issued == <<generated, binding>>

TokenStatus == {"absent", "valid", "used", "revoked"}
Config == [enabled : BOOLEAN, tok : [Tokens -> TokenStatus]]

\* An emptied file parses as the zero BootstrapConfig: Enabled is false
EmptyFile == [enabled |-> FALSE, tok |-> [t \in Tokens |-> "absent"]]
NewBootstrapConfig == [enabled |-> TRUE, tok |-> [t \in Tokens |-> "absent"]]

SetStatus(cfg, t, s) == [cfg EXCEPT !.tok[t] = s]

\* A handler's or the command's position; data is the marshalled configuration
Idle == [pc |-> "idle", token |-> NoToken, data |-> EmptyFile]
Saving(c) == reg[c].pc \in {"marshal", "truncate", "write"}
InFlight == {c \in Connectors : reg[c].pc # "idle"}

Init ==
  /\ up = FALSE
  /\ mem = NewBootstrapConfig
  /\ file = NewBootstrapConfig
  /\ generated = {}
  /\ binding = [t \in Tokens |-> NoConnector]
  /\ expired = {}
  /\ reg = [c \in Connectors |-> Idle]
  /\ cli = Idle
  /\ registered = {}
  /\ delivered = [t \in Tokens \union {NoToken} |-> {}]
  /\ revoked = {}

-----------------------------------------------------------------------------
(* The kernel process *)

\* main: LoadConfig at start-up, the only time the kernel reads the file
Start ==
  /\ ~up
  /\ CliWhileServing \/ cli.pc = "idle"
  /\ up' = TRUE
  /\ mem' = file
  /\ UNCHANGED <<file, issued, expired, reg, cli, registered, delivered, revoked>>

\* The process ends at any point; handlers, registry and memory are gone
Crash ==
  /\ up
  /\ up' = FALSE
  /\ mem' = NewBootstrapConfig
  /\ reg' = [c \in Connectors |-> Idle]
  /\ registered' = {}
  /\ UNCHANGED <<file, issued, expired, cli, delivered, revoked>>

\* BootstrapToken.IsValid on a status the kernel has in memory
IsValid(t) == mem.tok[t] = "valid" /\ t \notin expired

\* mutant: a token may be used by any connector
ValidateAnyConnector(t, c) == IsValid(t)

\* TokenManager.ValidateToken, under the read lock
ValidateToken(t, c) == IsValid(t) /\ binding[t] \in {NoConnector, c}

\* RegisterConnector up to the certificate: the connector is not registered, and its
\* token is valid unless validation is switched off
RegisterValidate(c, t) ==
  /\ up
  /\ reg[c].pc = "idle" /\ Cardinality(InFlight) < MaxInFlight
  /\ c \notin registered
  /\ IF mem.enabled THEN t \in Tokens /\ ValidateToken(t, c) ELSE t = NoToken
  /\ reg' = [reg EXCEPT ![c] = [pc |-> "validated", token |-> t, data |-> EmptyFile]]
  /\ UNCHANGED <<up, mem, file, issued, expired, cli, registered, delivered, revoked>>

\* mutant: the token is marked only after the reply
MarkTokenLater(c) ==
  /\ up /\ reg[c].pc = "validated"
  /\ reg' = [reg EXCEPT ![c].pc = "respond"]
  /\ UNCHANGED <<up, mem, file, issued, expired, cli, registered, delivered, revoked>>

\* TokenManager.MarkTokenUsed under m.mu, after the certificate was issued.  When it fails
\* because somebody else used the token, the handler logs that and goes on
MarkTokenUsed(c) ==
  LET t == reg[c].token IN
  /\ up /\ reg[c].pc = "validated"
  /\ IF t # NoToken /\ IsValid(t)
       THEN /\ mem' = SetStatus(mem, t, "used")
            /\ reg' = [reg EXCEPT ![c].pc = "marshal"]
       ELSE /\ reg' = [reg EXCEPT ![c].pc = "respond"]
            /\ UNCHANGED mem
  /\ UNCHANGED <<up, file, issued, expired, cli, registered, delivered, revoked>>

\* saveConfig, yaml.Marshal: outside the lock, on the configuration all handlers share
MarshalConfig(c) ==
  /\ up /\ reg[c].pc = "marshal"
  /\ reg' = [reg EXCEPT ![c].pc = "truncate", ![c].data = mem]
  /\ UNCHANGED <<up, mem, file, issued, expired, cli, registered, delivered, revoked>>

\* saveConfig, os.WriteFile: the file is opened with O_TRUNC ...
TruncateFile(c) ==
  /\ up /\ reg[c].pc = "truncate"
  /\ reg' = [reg EXCEPT ![c].pc = "write"]
  /\ file' = EmptyFile
  /\ UNCHANGED <<up, mem, issued, expired, cli, registered, delivered, revoked>>

\* ... and then written
WriteFile(c) ==
  /\ up /\ reg[c].pc = "write"
  /\ reg' = [reg EXCEPT ![c].pc = "respond"]
  /\ file' = reg[c].data
  /\ UNCHANGED <<up, mem, issued, expired, cli, registered, delivered, revoked>>

\* The reply carries the certificate
Respond(c) ==
  /\ up /\ reg[c].pc = "respond"
  /\ delivered' = [delivered EXCEPT ![reg[c].token] = @ \union {c}]
  /\ reg' = [reg EXCEPT ![c] = Idle]
  /\ UNCHANGED <<up, mem, file, issued, expired, cli, registered, revoked>>

\* Handshake with the certificate enters the connector in the registry
Handshake(c) ==
  /\ up /\ c \notin registered
  /\ \E t \in DOMAIN delivered : c \in delivered[t]
  /\ registered' = registered \union {c}
  /\ UNCHANGED <<up, mem, file, issued, expired, reg, cli, delivered, revoked>>

\* ExpiresAt of a token passes
Expire(t) ==
  /\ t \in generated \ expired
  /\ expired' = expired \union {t}
  /\ UNCHANGED <<up, mem, file, issued, reg, cli, registered, delivered, revoked>>

-----------------------------------------------------------------------------
(* The "kernel token" command *)

\* LoadConfig of the command; it runs whenever the administrator likes
CliLoad ==
  /\ cli.pc = "idle"
  /\ CliWhileServing \/ ~up
  /\ cli' = [pc |-> "loaded", token |-> NoToken, data |-> file]
  /\ UNCHANGED <<up, mem, file, issued, expired, reg, registered, delivered, revoked>>

\* GenerateToken: a code that was never used before, bound to a connector or to nobody
CliGenerate(t, owner) ==
  /\ cli.pc = "loaded"
  /\ t \notin generated
  /\ generated' = generated \union {t}
  /\ binding' = [binding EXCEPT ![t] = owner]
  /\ cli' = [cli EXCEPT !.pc = "truncate", !.data = SetStatus(@, t, "valid")]
  /\ UNCHANGED <<up, mem, file, expired, reg, registered, delivered, revoked>>

\* mutant: only ExpiresAt is cleared, the status stays
CliRevokeExpiryOnly(t) ==
  /\ cli.pc = "loaded"
  /\ IF cli.data.tok[t] \in {"absent", "used"}
       THEN cli' = Idle
       ELSE cli' = [cli EXCEPT !.pc = "truncate", !.token = t]
  /\ UNCHANGED <<up, mem, file, issued, expired, reg, registered, delivered, revoked>>

\* RevokeToken: refused for a token that is unknown or used
CliRevoke(t) ==
  /\ cli.pc = "loaded"
  /\ IF cli.data.tok[t] \in {"absent", "used"}
       THEN cli' = Idle
       ELSE cli' = [pc |-> "truncate", token |-> t,
                    data |-> SetStatus(cli.data, t, "revoked")]
  /\ UNCHANGED <<up, mem, file, issued, expired, reg, registered, delivered, revoked>>

\* saveConfig of the command, as in the kernel
CliTruncate ==
  /\ cli.pc = "truncate"
  /\ cli' = [cli EXCEPT !.pc = "write"]
  /\ file' = EmptyFile
  /\ UNCHANGED <<up, mem, issued, expired, reg, registered, delivered, revoked>>

\* The file is written and the command prints its "[OK]"
CliWrite ==
  /\ cli.pc = "write"
  /\ file' = cli.data
  /\ revoked' = revoked \union ({cli.token} \ {NoToken})
  /\ cli' = Idle
  /\ UNCHANGED <<up, mem, issued, expired, reg, registered, delivered>>

Next ==
  \/ Start
  \/ Crash
  \/ \E c \in Connectors, t \in Tokens \union {NoToken} : RegisterValidate(c, t)
  \/ \E c \in Connectors : MarkTokenUsed(c)
  \/ \E c \in Connectors : MarshalConfig(c)
  \/ \E c \in Connectors : TruncateFile(c)
  \/ \E c \in Connectors : WriteFile(c)
  \/ \E c \in Connectors : Respond(c)
  \/ \E c \in Connectors : Handshake(c)
  \/ \E t \in Tokens : Expire(t)
  \/ CliLoad
  \/ \E t \in Tokens, owner \in Connectors \union {NoConnector} : CliGenerate(t, owner)
  \/ \E t \in Tokens : CliRevoke(t)
  \/ CliTruncate
  \/ CliWrite

Spec == Init /\ [][Next]_vars
-----------------------------------------------------------------------------
\* Every variable has its type
TypeOK ==
  /\ up \in BOOLEAN
  /\ mem \in Config /\ file \in Config
  /\ generated \subseteq Tokens /\ expired \subseteq Tokens /\ revoked \subseteq Tokens
  /\ binding \in [Tokens -> Connectors \union {NoConnector}]
  /\ reg \in [Connectors ->
                [pc : {"idle", "validated", "marshal", "truncate", "write", "respond"},
                 token : Tokens \union {NoToken}, data : Config]]
  /\ cli \in [pc : {"idle", "loaded", "truncate", "write"},
               token : Tokens \union {NoToken}, data : Config]
  /\ registered \subseteq Connectors
  /\ delivered \in [Tokens \union {NoToken} -> SUBSET Connectors]

\* A token bound to a connector gives a certificate to nobody else, whatever registrations
\* overlap, whatever the command writes at the same time and wherever the kernel crashes
BoundTokenHonored ==
  \A t \in Tokens : binding[t] # NoConnector => delivered[t] \subseteq {binding[t]}

\* PROJECT_ARCHITECTURE.md: each token can be used once.  No two connectors get a
\* certificate for the same token, not even across a restart of the kernel
OneTimeUse ==
  \A t \in Tokens : \A c, d \in delivered[t] : c = d

\* PROJECT_ARCHITECTURE.md: the state of the tokens is kept in the YAML file.  When nobody
\* is in the middle of saving, the file holds what the kernel knows
FileIsCurrent ==
  up /\ cli.pc = "idle" /\ (\A c \in Connectors : ~Saving(c)) => file = mem

\* RevokeToken: "a revoked token is invalid at once".  Once the command has reported a
\* token as revoked the running kernel does not take it
RevokedIsRefused ==
  up => \A t \in revoked : mem.tok[t] # "valid"

\* SAFETY.  The file governs: it agrees with the kernel between two saves, and what was revoked in it
\* is refused (saveConfig, LoadConfig, RevokeToken)
FileGoverns == FileIsCurrent /\ RevokedIsRefused
=============================================================================
