------------------------ MODULE BootstrapTokenProofs ------------------------
(***************************************************************************)
(* Proofs about BootstrapToken, for every set of tokens and every finite   *)
(* set of connectors.                                                      *)
(*                                                                         *)
(* The binding of a token is honoured without any restriction on how       *)
(* registrations, the command and crashes overlap.  One-time use needs     *)
(* two: registrations do not overlap, and the command runs only while the  *)
(* kernel is down (SequentialUse).  The runs show that neither can be      *)
(* dropped.                                                                *)
(***************************************************************************)
EXTENDS BootstrapToken, TLAPS, FiniteSetTheorems

\* A code nobody generated is nowhere to be found
FreshCodes ==
  \A t \in Tokens \ generated :
    /\ mem.tok[t] = "absent" /\ file.tok[t] = "absent" /\ cli.data.tok[t] = "absent"
    /\ delivered[t] = {}
    /\ \A c \in Connectors : reg[c].token # t /\ reg[c].data.tok[t] = "absent"

\* A registration in progress shows a token its connector may use
RightBearer ==
  \A c \in Connectors : reg[c].token \in Tokens => binding[reg[c].token] \in {NoConnector, c}

BoundInv ==
  /\ TypeOK
  /\ FreshCodes
  /\ RightBearer
  /\ BoundTokenHonored

\* The fields of a process that does nothing
LEMMA IdleType == Idle.pc = "idle" /\ Idle.token = NoToken /\ Idle.data = EmptyFile
                  /\ EmptyFile \in Config /\ NewBootstrapConfig \in Config
                  /\ \A t \in Tokens : EmptyFile.tok[t] = "absent"
                                       /\ NewBootstrapConfig.tok[t] = "absent"
  BY DEF Idle, EmptyFile, NewBootstrapConfig, Config, TokenStatus

\* Changing the status of one token leaves a configuration, and leaves the others alone
LEMMA SetStatusType ==
  ASSUME NEW cfg \in Config, NEW t \in Tokens, NEW s \in TokenStatus
  PROVE  /\ SetStatus(cfg, t, s) \in Config
         /\ SetStatus(cfg, t, s).enabled = cfg.enabled
         /\ \A u \in Tokens : SetStatus(cfg, t, s).tok[u] = IF u = t THEN s ELSE cfg.tok[u]
  BY DEF SetStatus, Config

\* Only the token whose status is set changes
LEMMA SetStatusOthers ==
  ASSUME NEW cfg \in Config, NEW t \in Tokens,
         NEW s \in {"absent", "valid", "used", "revoked"}, NEW u \in Tokens, u # t
  PROVE  SetStatus(cfg, t, s).tok[u] = cfg.tok[u]
  BY DEF SetStatus, Config

\* No certificate has been handed out at the start
LEMMA InitBound == Init => BoundInv
<1> SUFFICES ASSUME Init PROVE BoundInv
  OBVIOUS
<1>1. TypeOK
  BY DEF Init, TypeOK, Idle, EmptyFile, NewBootstrapConfig, Config, TokenStatus
<1>2. FreshCodes /\ RightBearer /\ BoundTokenHonored
  BY TokenConstants, IdleType DEF Init, FreshCodes, RightBearer, BoundTokenHonored
<1> QED
  BY <1>1, <1>2 DEF BoundInv

\* Every step keeps the types
LEMMA StepType == TypeOK /\ [Next]_vars => TypeOK'
<1> SUFFICES ASSUME TypeOK, [Next]_vars PROVE TypeOK'
  OBVIOUS
<1> USE IdleType, TokenConstants DEF TypeOK, issued
<1>1. CASE Start
  BY <1>1 DEF Start
<1>2. CASE Crash
  BY <1>2 DEF Crash, Idle
<1>3. ASSUME NEW c \in Connectors, NEW t \in Tokens \union {NoToken}, RegisterValidate(c, t)
      PROVE  TypeOK'
  BY <1>3 DEF RegisterValidate
<1>4. ASSUME NEW c \in Connectors, MarkTokenUsed(c)
      PROVE  TypeOK'
  <2>1. CASE reg[c].token # NoToken /\ IsValid(reg[c].token)
    <3>1. mem' \in Config
      BY <1>4, <2>1, SetStatusType DEF MarkTokenUsed, TokenStatus
    <3> QED
      BY <1>4, <2>1, <3>1 DEF MarkTokenUsed
  <2>2. CASE ~(reg[c].token # NoToken /\ IsValid(reg[c].token))
    BY <1>4, <2>2 DEF MarkTokenUsed
  <2> QED
    BY <2>1, <2>2
<1>5. ASSUME NEW c \in Connectors, MarshalConfig(c)
      PROVE  TypeOK'
  BY <1>5 DEF MarshalConfig
<1>6. ASSUME NEW c \in Connectors, TruncateFile(c)
      PROVE  TypeOK'
  BY <1>6 DEF TruncateFile
<1>7. ASSUME NEW c \in Connectors, WriteFile(c)
      PROVE  TypeOK'
  BY <1>7 DEF WriteFile
<1>8. ASSUME NEW c \in Connectors, Respond(c)
      PROVE  TypeOK'
  BY <1>8 DEF Respond, Idle
<1>9. ASSUME NEW c \in Connectors, Handshake(c)
      PROVE  TypeOK'
  BY <1>9 DEF Handshake
<1>10. ASSUME NEW t \in Tokens, Expire(t)
       PROVE  TypeOK'
  BY <1>10 DEF Expire
<1>11. CASE CliLoad
  BY <1>11 DEF CliLoad
<1>12. ASSUME NEW t \in Tokens, NEW owner \in Connectors \union {NoConnector},
              CliGenerate(t, owner)
       PROVE  TypeOK'
  <2>1. SetStatus(cli.data, t, "valid") \in Config
    BY SetStatusType DEF TokenStatus
  <2> QED
    BY <1>12, <2>1 DEF CliGenerate
<1>13. ASSUME NEW t \in Tokens, CliRevoke(t)
       PROVE  TypeOK'
  <2>1. SetStatus(cli.data, t, "revoked") \in Config
    BY SetStatusType DEF TokenStatus
  <2> QED
    BY <1>13, <2>1 DEF CliRevoke, Idle
<1>14. CASE CliTruncate
  BY <1>14 DEF CliTruncate
<1>15. CASE CliWrite
  BY <1>15 DEF CliWrite, Idle
<1>16. CASE UNCHANGED vars
  BY <1>16 DEF vars
<1> QED
  BY <1>1, <1>2, <1>3, <1>4, <1>5, <1>6, <1>7, <1>8, <1>9, <1>10, <1>11, <1>12, <1>13,
     <1>14, <1>15, <1>16 DEF Next

\* Every step keeps the bindings honoured
LEMMA StepBound == BoundInv /\ [Next]_vars => BoundInv'
<1> SUFFICES ASSUME BoundInv, [Next]_vars PROVE BoundInv'
  OBVIOUS
<1>0. TypeOK'
  BY StepType DEF BoundInv
<1> DEFINE Goal == (FreshCodes /\ RightBearer /\ BoundTokenHonored)'
<1> USE <1>0, IdleType, TokenConstants
        DEF BoundInv, TypeOK, FreshCodes, RightBearer, BoundTokenHonored, issued
<1>1. CASE Start
  BY <1>1 DEF Start
<1>2. CASE Crash
  BY <1>2 DEF Crash
<1>3. ASSUME NEW c \in Connectors, NEW t \in Tokens \union {NoToken}, RegisterValidate(c, t)
      PROVE  Goal
  BY <1>3 DEF RegisterValidate, ValidateToken, IsValid
<1>4. ASSUME NEW c \in Connectors, MarkTokenUsed(c)
      PROVE  Goal
  <2>1. \A d \in Connectors : reg'[d].token = reg[d].token /\ reg'[d].data = reg[d].data
    BY <1>4 DEF MarkTokenUsed
  <2>2. UNCHANGED <<file, generated, binding, cli, delivered>>
    BY <1>4 DEF MarkTokenUsed
  <2>3. \A u \in Tokens \ generated : mem'.tok[u] = mem.tok[u]
    <3>1. CASE reg[c].token # NoToken /\ IsValid(reg[c].token)
      <4>1. reg[c].token \in Tokens /\ mem.tok[reg[c].token] = "valid"
        BY <3>1 DEF IsValid
      <4>2. mem' = SetStatus(mem, reg[c].token, "used")
        BY <1>4, <3>1 DEF MarkTokenUsed
      <4>3. reg[c].token \in generated
        BY <4>1
      <4> QED
        BY <4>1, <4>2, <4>3, SetStatusOthers
    <3>2. CASE ~(reg[c].token # NoToken /\ IsValid(reg[c].token))
      BY <1>4, <3>2 DEF MarkTokenUsed
    <3> QED
      BY <3>1, <3>2
  <2> QED
    BY <2>1, <2>2, <2>3
<1>5. ASSUME NEW c \in Connectors, MarshalConfig(c)
      PROVE  Goal
  BY <1>5 DEF MarshalConfig
<1>6. ASSUME NEW c \in Connectors, TruncateFile(c)
      PROVE  Goal
  BY <1>6 DEF TruncateFile
<1>7. ASSUME NEW c \in Connectors, WriteFile(c)
      PROVE  Goal
  BY <1>7 DEF WriteFile
<1>8. ASSUME NEW c \in Connectors, Respond(c)
      PROVE  Goal
  BY <1>8 DEF Respond
<1>9. ASSUME NEW c \in Connectors, Handshake(c)
      PROVE  Goal
  BY <1>9 DEF Handshake
<1>10. ASSUME NEW t \in Tokens, Expire(t)
      PROVE  Goal
  BY <1>10 DEF Expire
<1>11. CASE CliLoad
  BY <1>11 DEF CliLoad
<1>12. ASSUME NEW t \in Tokens, NEW owner \in Connectors \union {NoConnector}, CliGenerate(t, owner)
      PROVE  Goal
  <2>1. /\ UNCHANGED <<mem, file, reg, delivered>>
        /\ t \notin generated /\ generated' = generated \union {t}
        /\ binding' = [binding EXCEPT ![t] = owner]
    BY <1>12 DEF CliGenerate
  <2>2. \A u \in Tokens \ {t} : cli'.data.tok[u] = cli.data.tok[u]
    <3>1. cli'.data = SetStatus(cli.data, t, "valid")
      BY <1>12 DEF CliGenerate
    <3> QED
      BY <3>1, SetStatusOthers
  <2> QED
    BY <2>1, <2>2
<1>13. ASSUME NEW t \in Tokens, CliRevoke(t)
      PROVE  Goal
  <2>1. UNCHANGED <<mem, file, reg, generated, binding, delivered>>
    BY <1>13 DEF CliRevoke
  <2>2. \A u \in Tokens \ generated : cli'.data.tok[u] = "absent"
    <3>1. CASE cli.data.tok[t] \in {"absent", "used"}
      BY <1>13, <3>1 DEF CliRevoke
    <3>2. CASE cli.data.tok[t] \notin {"absent", "used"}
      <4>1. cli'.data = SetStatus(cli.data, t, "revoked") /\ t \in generated
        BY <1>13, <3>2 DEF CliRevoke
      <4> QED
        BY <4>1, SetStatusOthers
    <3> QED
      BY <3>1, <3>2
  <2> QED
    BY <2>1, <2>2
<1>14. CASE CliTruncate
  BY <1>14 DEF CliTruncate
<1>15. CASE CliWrite
  BY <1>15 DEF CliWrite
<1>16. CASE UNCHANGED vars
  BY <1>16 DEF vars
<1> QED
  BY <1>1, <1>2, <1>3, <1>4, <1>5, <1>6, <1>7, <1>8,
     <1>9, <1>10, <1>11, <1>12, <1>13, <1>14, <1>15, <1>16 DEF Next

\* Types hold in every reachable state
THEOREM TokenTypeCorrect == Spec => []TypeOK
<1>1. Init => TypeOK
  BY InitBound DEF BoundInv
<1> QED
  BY <1>1, StepType, PTL DEF Spec

\* A bound token never gives a certificate to another connector: overlapping
\* registrations, the command, crashes and restarts included
THEOREM BindingHonored == Spec => []BoundTokenHonored
<1>1. BoundInv => BoundTokenHonored
  BY DEF BoundInv
<1> QED
  BY <1>1, InitBound, StepBound, PTL DEF Spec

-----------------------------------------------------------------------------
\* The operating conditions under which a token is used once
SequentialUse == MaxInFlight = 1 /\ ~CliWhileServing

\* The kernel and the command take turns, and so do the registrations
TakingTurns ==
  /\ up => cli.pc = "idle"
  /\ ~up => mem = NewBootstrapConfig /\ \A c \in Connectors : reg[c].pc = "idle"
  /\ \A c, d \in Connectors : reg[c].pc # "idle" /\ reg[d].pc # "idle" => c = d
  /\ \A c \in Connectors : reg[c].pc = "idle" => reg[c].token = NoToken
  /\ cli.pc = "idle" => cli.data = EmptyFile
  /\ cli.pc \in {"idle", "loaded"} => cli.token = NoToken

\* What a handler is about to write is what the kernel knows
SavesCurrent ==
  \A c \in Connectors : reg[c].pc \in {"truncate", "write"} => reg[c].data = mem

\* The token of a registration in progress gave no certificate yet, and once it has been
\* marked the kernel does not take it again
PendingTokens ==
  \A c \in Connectors : reg[c].token \in Tokens =>
    /\ delivered[reg[c].token] = {}
    /\ Saving(c) \/ reg[c].pc = "respond" =>
         reg[c].token \in expired \/ mem.tok[reg[c].token] # "valid"

\* A token that gave a certificate is valid nowhere any more, so no restart revives it
SpentTokens ==
  \A t \in Tokens : delivered[t] # {} =>
    \/ t \in expired
    \/ mem.tok[t] # "valid" /\ file.tok[t] # "valid" /\ cli.data.tok[t] # "valid"

\* The same for revoked tokens; the command reports what it is about to write
RevokedTokens ==
  /\ revoked \subseteq generated
  /\ \A t \in revoked :
       mem.tok[t] # "valid" /\ file.tok[t] # "valid" /\ cli.data.tok[t] # "valid"
  /\ cli.token \in Tokens => cli.data.tok[cli.token] = "revoked"

SeqInv ==
  /\ BoundInv
  /\ TakingTurns
  /\ SavesCurrent
  /\ FileIsCurrent
  /\ PendingTokens
  /\ SpentTokens
  /\ RevokedTokens
  /\ OneTimeUse

\* With one registration at a time, a new one starts when none is in progress
LEMMA NoneInFlight ==
  ASSUME SequentialUse, Cardinality(InFlight) < MaxInFlight
  PROVE  \A c \in Connectors : reg[c].pc = "idle"
<1>1. InFlight \subseteq Connectors /\ IsFiniteSet(InFlight)
  BY TokenConstants, FS_Subset DEF InFlight
<1>2. Cardinality(InFlight) \in Nat
  BY <1>1, FS_CardinalityType
<1>3. Cardinality(InFlight) = 0
  BY <1>2 DEF SequentialUse
<1>4. InFlight = {}
  BY <1>1, <1>3, FS_EmptySet
<1> QED
  BY <1>4 DEF InFlight

\* The invariant of sequential use holds at the start
LEMMA InitSeq == Init => SeqInv
<1> SUFFICES ASSUME Init PROVE SeqInv
  OBVIOUS
<1>1. BoundInv
  BY InitBound
<1>2. TakingTurns /\ SavesCurrent /\ FileIsCurrent
  BY IdleType DEF Init, TakingTurns, SavesCurrent, FileIsCurrent
<1>3. PendingTokens /\ SpentTokens /\ RevokedTokens /\ OneTimeUse
  BY IdleType, TokenConstants
     DEF Init, PendingTokens, SpentTokens, RevokedTokens, OneTimeUse
<1> QED
  BY <1>1, <1>2, <1>3 DEF SeqInv

\* Every step keeps the invariant of sequential use
LEMMA StepSeq == SequentialUse /\ SeqInv /\ [Next]_vars => SeqInv'
<1> SUFFICES ASSUME SequentialUse, SeqInv, [Next]_vars PROVE SeqInv'
  OBVIOUS
<1>0. BoundInv' /\ TypeOK'
  BY StepBound DEF SeqInv, BoundInv
<1> DEFINE Goal == (/\ TakingTurns /\ SavesCurrent /\ FileIsCurrent /\ PendingTokens
                    /\ SpentTokens /\ RevokedTokens /\ OneTimeUse)'
<1> USE <1>0, IdleType, TokenConstants
        DEF SeqInv, BoundInv, TypeOK, TakingTurns, SavesCurrent, FileIsCurrent, Saving,
            PendingTokens, SpentTokens, RevokedTokens, OneTimeUse, issued
<1>1. CASE Start
  BY <1>1 DEF Start, SequentialUse
<1>2. CASE Crash
  BY <1>2 DEF Crash
<1>3. ASSUME NEW c \in Connectors, NEW t \in Tokens \union {NoToken}, RegisterValidate(c, t)
      PROVE  Goal
  BY <1>3, NoneInFlight DEF RegisterValidate, ValidateToken, IsValid
<1>4. ASSUME NEW c \in Connectors, MarkTokenUsed(c)
      PROVE  Goal
  <2>1. CASE reg[c].token # NoToken /\ IsValid(reg[c].token)
    <3> DEFINE t == reg[c].token
    <3>1. t \in Tokens /\ mem' = SetStatus(mem, t, "used")
      BY <1>4, <2>1 DEF MarkTokenUsed
    <3>2. mem'.tok[t] = "used" /\ \A u \in Tokens \ {t} : mem'.tok[u] = mem.tok[u]
      BY <3>1, SetStatusOthers DEF SetStatus, Config
    <3>3. /\ up /\ reg[c].pc = "validated"
          /\ reg' = [reg EXCEPT ![c].pc = "marshal"]
          /\ UNCHANGED <<up, file, generated, binding, expired, cli, registered, delivered,
                         revoked>>
      BY <1>4, <2>1 DEF MarkTokenUsed
    <3> HIDE DEF t
    <3> QED
      BY <3>1, <3>2, <3>3 DEF t
  <2>2. CASE ~(reg[c].token # NoToken /\ IsValid(reg[c].token))
    BY <1>4, <2>2 DEF MarkTokenUsed, IsValid
  <2> QED
    BY <2>1, <2>2
<1>5. ASSUME NEW c \in Connectors, MarshalConfig(c)
      PROVE  Goal
  BY <1>5 DEF MarshalConfig
<1>6. ASSUME NEW c \in Connectors, TruncateFile(c)
      PROVE  Goal
  BY <1>6 DEF TruncateFile
<1>7. ASSUME NEW c \in Connectors, WriteFile(c)
      PROVE  Goal
  BY <1>7 DEF WriteFile
<1>8. ASSUME NEW c \in Connectors, Respond(c)
      PROVE  Goal
  BY <1>8 DEF Respond
<1>9. ASSUME NEW c \in Connectors, Handshake(c)
      PROVE  Goal
  BY <1>9 DEF Handshake
<1>10. ASSUME NEW t \in Tokens, Expire(t)
      PROVE  Goal
  BY <1>10 DEF Expire
<1>11. CASE CliLoad
  BY <1>11 DEF CliLoad, SequentialUse
<1>12. ASSUME NEW t \in Tokens, NEW owner \in Connectors \union {NoConnector}, CliGenerate(t, owner)
      PROVE  Goal
  <2>1. /\ UNCHANGED <<up, mem, file, expired, reg, registered, delivered, revoked>>
        /\ cli.pc = "loaded" /\ cli'.pc = "truncate" /\ cli'.token = cli.token
        /\ t \notin generated /\ generated' = generated \union {t}
        /\ cli'.data = SetStatus(cli.data, t, "valid")
    BY <1>12 DEF CliGenerate
  <2>2. \A u \in Tokens \ {t} : cli'.data.tok[u] = cli.data.tok[u]
    BY <2>1, SetStatusOthers
  <2>3. delivered[t] = {} /\ t \notin revoked
    BY <2>1 DEF FreshCodes
  <2> QED
    BY <2>1, <2>2, <2>3
<1>13. ASSUME NEW t \in Tokens, CliRevoke(t)
      PROVE  Goal
  <2>1. CASE cli.data.tok[t] \in {"absent", "used"}
    BY <1>13, <2>1 DEF CliRevoke
  <2>2. CASE cli.data.tok[t] \notin {"absent", "used"}
    <3>1. /\ UNCHANGED <<up, mem, file, generated, binding, expired, reg, registered,
                         delivered, revoked>>
          /\ cli.pc = "loaded" /\ cli'.pc = "truncate" /\ cli'.token = t
          /\ cli'.data = SetStatus(cli.data, t, "revoked")
      BY <1>13, <2>2 DEF CliRevoke
    <3>2. cli'.data.tok[t] = "revoked"
      BY <3>1 DEF SetStatus, Config
    <3>3. \A u \in Tokens \ {t} : cli'.data.tok[u] = cli.data.tok[u]
      BY <3>1, SetStatusOthers
    <3> QED
      BY <3>1, <3>2, <3>3
  <2> QED
    BY <2>1, <2>2
<1>14. CASE CliTruncate
  BY <1>14 DEF CliTruncate
<1>15. CASE CliWrite
  <2>1. cli.token \in Tokens => cli.token \in generated
    BY DEF FreshCodes
  <2>2. ~up
    BY <1>15 DEF CliWrite
  <2>3. /\ UNCHANGED <<up, mem, generated, binding, expired, reg, registered, delivered>>
        /\ file' = cli.data /\ cli' = Idle
        /\ revoked' = revoked \union ({cli.token} \ {NoToken})
    BY <1>15 DEF CliWrite
  <2>4. ~Idle.token \in Tokens /\ \A t \in Tokens : Idle.data.tok[t] # "valid"
    OBVIOUS
  <2>5. TakingTurns' /\ SavesCurrent' /\ FileIsCurrent'
    BY <2>2, <2>3
  <2>6. PendingTokens' /\ SpentTokens' /\ OneTimeUse'
    BY <2>3, <2>4
  <2>7. RevokedTokens'
    <3>1. \A t \in revoked' : t \in generated
      BY <2>1, <2>3
    <3>2. \A t \in revoked' : mem.tok[t] # "valid"
      BY <2>2, <2>3
    <3> QED
      BY <2>3, <2>4, <3>1, <3>2
  <2> QED
    BY <2>5, <2>6, <2>7
<1>16. CASE UNCHANGED vars
  BY <1>16 DEF vars
<1> QED
  BY <1>1, <1>2, <1>3, <1>4, <1>5, <1>6, <1>7, <1>8,
     <1>9, <1>10, <1>11, <1>12, <1>13, <1>14, <1>15, <1>16 DEF Next

\* If registrations do not overlap and the command is used only while the kernel is down,
\* no two connectors get a certificate for one token, wherever the kernel crashes
THEOREM SequentialOneTimeUse ==
  ASSUME SequentialUse
  PROVE  Spec => []OneTimeUse
<1>1. SeqInv /\ [Next]_vars => SeqInv'
  BY StepSeq
<1>2. SeqInv => OneTimeUse
  BY DEF SeqInv
<1> QED
  BY <1>1, <1>2, InitSeq, PTL DEF Spec

\* Under the same conditions the file agrees with the kernel between two saves, and a revoked token
\* is never taken again
THEOREM SequentialFileGoverns ==
  ASSUME SequentialUse
  PROVE  Spec => []FileGoverns
<1>1. SeqInv /\ [Next]_vars => SeqInv'
  BY StepSeq
<1>2. SeqInv => FileIsCurrent
  BY DEF SeqInv
<1>3. SeqInv => RevokedIsRefused
  BY DEF SeqInv, RevokedTokens, RevokedIsRefused
<1>4. SeqInv => FileGoverns
  BY <1>2, <1>3 DEF FileGoverns
<1> QED
  BY <1>1, <1>4, InitSeq, PTL DEF Spec
=============================================================================
