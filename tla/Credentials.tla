----------------------------- MODULE Credentials -----------------------------
(***************************************************************************)
(* The credential broker (credential_broker.py): a registry file that      *)
(* names resources, their fields, the projects bound to them and the       *)
(* captures waiting for the user, and the credential store of the          *)
(* operating system, which holds the values.  The two are written one      *)
(* after the other, key by key, and every single write can fail; the       *)
(* broker then puts the old values back, which can fail as well.           *)
(*                                                                         *)
(* One call runs at a time.  The file is not locked: two processes can     *)
(* lose each other's update, and a process that dies between the two       *)
(* stores leaves them apart; neither is handled by the code.               *)
(*                                                                         *)
(* Left out: what a credential looks like and how it is detected, running  *)
(* a command with the values, and the aliases of local_secrets.py.         *)
(***************************************************************************)
EXTENDS Integers, FiniteSets

CONSTANTS
    Resources,      \* service, origin and account
    Captures,       \* ids of pending captures; one that is not in use is fresh
    Fields,
    Values,
    Projects,
    NoValue,
    NoCall

Owners == Resources \cup Captures
Keys == Owners \X Fields

Registries == [fields : [Owners -> SUBSET Fields], bindings : SUBSET (Projects \X Resources)]

\* what the store is to hold under some of its keys
Updates == UNION {[ks -> Values \cup {NoValue}] : ks \in SUBSET Keys}

\* a call under way: what it changes and what was there, the keys still to be written,
\* and the file it is to leave
CallRecords == [phase : {"change", "restore"}, changes : Updates, old : Updates,
                todo : SUBSET Keys, new : Registries]

ASSUME CredentialAssumption ==
    /\ Resources \cap Captures = {}
    /\ NoValue \notin Values
    /\ NoCall \notin CallRecords

VARIABLES
    registry,       \* the file: fields of each resource and capture, bindings
    vault,          \* the credential store
    call,           \* the call under way, NoCall between calls
    unsure,         \* some call ended with "rollback could not be confirmed"
    torn,           \* ghost: some call failed when its file was already in place
    settled         \* ghost: the values the completed calls left in the store

credentialVars == <<registry, vault, call, unsure, torn, settled>>

CredentialTypeOK ==
    /\ registry \in Registries
    /\ vault \in [Keys -> Values \cup {NoValue}]
    /\ settled \in [Keys -> Values \cup {NoValue}]
    /\ unsure \in BOOLEAN /\ torn \in BOOLEAN
    /\ call \in CallRecords \cup {NoCall}
    /\ call # NoCall => call.todo \subseteq DOMAIN call.changes /\ DOMAIN call.old = DOMAIN call.changes

CredentialInit ==
    /\ registry = [fields |-> [o \in Owners |-> {}], bindings |-> {}]
    /\ vault = [k \in Keys |-> NoValue]
    /\ call = NoCall
    /\ unsure = FALSE
    /\ torn = FALSE
    /\ settled = vault

Known == {o \in Owners : registry.fields[o] # {}}

KeysOf(o) == {o} \X registry.fields[o]

----------------------------------------------------------------------------
(* The calls: each reads the file, and says what the store and the file are to become *)

\* Bound: no call follows one that left the stores apart, of which the properties say
\* nothing more.
Conclusive == ~unsure /\ ~torn

Begin(changes, new) ==
    /\ call = NoCall
    /\ Conclusive
    /\ call' = [phase |-> "change", changes |-> changes, todo |-> DOMAIN changes,
                old |-> [k \in DOMAIN changes |-> vault[k]], new |-> new]
    /\ UNCHANGED <<registry, vault, unsure, torn, settled>>

WithFields(reg, o, fs) == [reg EXCEPT !.fields[o] = fs]

BoundTo(reg, o, ps) == [reg EXCEPT !.bindings = @ \cup (ps \X {o})]

\* the fields given join those the resource has; ps is the project to bind, or nothing
Save(r, fs, v, ps) ==
    Begin([k \in {r} \X fs |-> v],
          BoundTo(WithFields(registry, r, registry.fields[r] \cup fs), r, ps))

CaptureDetection(c, fs, v) ==
    /\ c \notin Known
    /\ Begin([k \in {c} \X fs |-> v], WithFields(registry, c, fs))

Confirming(c, r) ==
    [k \in ({r} \X registry.fields[c]) \cup KeysOf(c) |->
        IF k[1] = c THEN NoValue ELSE vault[<<c, k[2]>>]]

ConfirmPending(c, r, ps) ==
    /\ c \in Known
    /\ \A k \in KeysOf(c) : vault[k] # NoValue
    /\ Begin(Confirming(c, r),
             BoundTo([registry EXCEPT !.fields[r] = @ \cup registry.fields[c],
                                      !.fields[c] = {}], r, ps))

DiscardPending(c) ==
    /\ c \in Known
    /\ Begin([k \in KeysOf(c) |-> NoValue], WithFields(registry, c, {}))

DeleteResource(r) ==
    /\ r \in Known
    /\ Begin([k \in KeysOf(r) |-> NoValue],
             [WithFields(registry, r, {}) EXCEPT
                 !.bindings = {b \in registry.bindings : b[2] # r}])

BindProject(p, r) ==
    /\ r \in Known
    /\ Begin(<<>>, BoundTo(registry, r, {p}))

UnlinkProject(p, r) ==
    /\ <<p, r>> \in registry.bindings
    /\ Begin(<<>>, [registry EXCEPT !.bindings = @ \ {<<p, r>>}])

BrokerCalls ==
    \/ \E r \in Resources, fs \in (SUBSET Fields) \ {{}}, v \in Values,
          ps \in {{}} \cup {{p} : p \in Projects} : Save(r, fs, v, ps)
    \/ \E c \in Captures, fs \in (SUBSET Fields) \ {{}}, v \in Values :
          CaptureDetection(c, fs, v)
    \/ \E c \in Captures, r \in Resources,
          ps \in {{}} \cup {{p} : p \in Projects} : ConfirmPending(c, r, ps)
    \/ \E c \in Captures : DiscardPending(c)
    \/ \E r \in Resources : DeleteResource(r)
    \/ \E p \in Projects, r \in Resources : BindProject(p, r) \/ UnlinkProject(p, r)

----------------------------------------------------------------------------
(* _vault_change: the store first, then the file, and back when either refuses *)

InPhase(p) == call # NoCall /\ call.phase = p

Write(k, v) == vault' = [vault EXCEPT ![k] = v]

ChangeStore ==
    /\ InPhase("change")
    /\ \E k \in call.todo :
          /\ Write(k, call.changes[k])
          /\ call' = [call EXCEPT !.todo = @ \ {k}]
    /\ UNCHANGED <<registry, unsure, torn, settled>>

WriteRegistry ==
    /\ InPhase("change")
    /\ call.todo = {}
    /\ registry' = call.new
    /\ settled' = [k \in Keys |-> IF k \in DOMAIN call.changes THEN call.changes[k]
                                                               ELSE settled[k]]
    /\ call' = NoCall
    /\ UNCHANGED <<vault, unsure, torn>>

\* Mutant of Restorable: only values that were there before are put back.
RestorableOld == {k \in DOMAIN call.old : call.old[k] # NoValue}

\* what the rollback writes: the old value of every key the call meant to change
Restorable == DOMAIN call.old

RollBack == call' = [call EXCEPT !.phase = "restore", !.todo = Restorable]

\* a write of the store fails, or the file is refused before it replaces the old one
ChangeFails ==
    /\ InPhase("change")
    /\ RollBack
    /\ UNCHANGED <<registry, vault, unsure, torn, settled>>

\* the new file is in place when the call that restricts it fails
RestrictFails ==
    /\ InPhase("change")
    /\ call.todo = {}
    /\ registry' = call.new
    /\ torn' = TRUE
    /\ RollBack
    /\ UNCHANGED <<vault, unsure, settled>>

RestoreStore ==
    /\ InPhase("restore")
    /\ \E k \in call.todo :
          /\ Write(k, call.old[k])
          /\ call' = [call EXCEPT !.todo = @ \ {k}]
    /\ UNCHANGED <<registry, unsure, torn, settled>>

\* the call ends with an error that says the store was restored
Restored ==
    /\ InPhase("restore")
    /\ call.todo = {}
    /\ call' = NoCall
    /\ UNCHANGED <<registry, vault, unsure, torn, settled>>

\* or with one that says that the rollback could not be confirmed
RestoreFails ==
    /\ InPhase("restore")
    /\ call.todo # {}
    /\ call' = NoCall
    /\ unsure' = TRUE
    /\ UNCHANGED <<registry, vault, torn, settled>>

CredentialNext ==
    \/ BrokerCalls
    \/ ChangeStore \/ WriteRegistry \/ ChangeFails \/ RestrictFails
    \/ RestoreStore \/ Restored \/ RestoreFails

CredentialSpec == CredentialInit /\ [][CredentialNext]_credentialVars

----------------------------------------------------------------------------
(* Properties *)

\* every registered field has the value the last completed call gave it, no value
\* outlives its resource or capture, and no project is bound to a resource that is gone
Agreement ==
    /\ vault = settled
    /\ {k \in Keys : vault[k] # NoValue} = UNION {KeysOf(o) : o \in Owners}
    /\ \A b \in registry.bindings : b[2] \in Known

\* Between calls the file and the store agree, whichever of the writes of the earlier
\* calls have failed and whatever was put back, until a rollback could not be confirmed
\* or a file was refused when it was already in place.
StoresAgree == call = NoCall /\ ~unsure /\ ~torn => Agreement
=============================================================================
