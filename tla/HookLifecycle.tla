--------------------------- MODULE HookLifecycle ---------------------------
(***************************************************************************)
(* onLoad installs ten hooks into the running server, one after the other; *)
(* if one cannot be installed it takes all of them back.  To install a     *)
(* hook is to check the server's bytes, to get what the hook needs (a      *)
(* trampoline, a registry), to make the code's page writable, to overwrite *)
(* the code, and to protect the page again: each step may fail.            *)
(*                                                                         *)
(* One step is one of these calls, because other threads may run the       *)
(* hooked code between any two.  What they do there is left to the modules *)
(* of the hooks; here is what they find.                                   *)
(*                                                                         *)
(* A definition whose comment starts with "Slip:" is no part of the model. *)
(***************************************************************************)
EXTENDS Integers, Sequences

(***************************************************************************)
(* How the hooks' install and remove differ.                               *)
(*   needs     what the new code needs besides itself                      *)
(*   forgets   remove takes a hook for removed, and gives up what it       *)
(*             needs, though the page could not be made writable           *)
(*   seesLast  install looks at the result of its last mprotect            *)
(*   early     install sets installed before its last mprotect, and calls  *)
(*             remove if that fails                                        *)
(***************************************************************************)
area ==
  [name |-> "area", needs |-> "trampoline", forgets |-> TRUE,
   seesLast |-> TRUE, early |-> FALSE]
monotonic ==
  [name |-> "monotonic", needs |-> "trampoline", forgets |-> TRUE,
   seesLast |-> TRUE, early |-> FALSE]
ownership ==
  [name |-> "ownership", needs |-> "trampoline", forgets |-> TRUE,
   seesLast |-> TRUE, early |-> FALSE]
shared_mutex ==
  [name |-> "shared_mutex", needs |-> "registry", forgets |-> TRUE,
   seesLast |-> TRUE, early |-> FALSE]
transient ==
  [name |-> "transient", needs |-> "nothing", forgets |-> TRUE,
   seesLast |-> TRUE, early |-> FALSE]
construction ==
  [name |-> "construction", needs |-> "nothing", forgets |-> FALSE,
   seesLast |-> TRUE, early |-> FALSE]
direct ==
  [name |-> "direct", needs |-> "trampoline", forgets |-> FALSE,
   seesLast |-> TRUE, early |-> FALSE]
containment ==
  [name |-> "containment", needs |-> "trampoline", forgets |-> TRUE,
   seesLast |-> TRUE, early |-> FALSE]
shuffle ==
  [name |-> "shuffle", needs |-> "nothing", forgets |-> FALSE,
   seesLast |-> FALSE, early |-> FALSE]
leveldb ==
  [name |-> "leveldb", needs |-> "trampoline", forgets |-> FALSE,
   seesLast |-> TRUE, early |-> TRUE]

(* Slip: the direct constructor is installed before its allocator.         *)
DirectFirst ==
  <<area, monotonic, ownership, shared_mutex, transient, direct,
    construction, containment, shuffle, leveldb>>

Order ==
  <<area, monotonic, ownership, shared_mutex, transient, construction,
    direct, containment, shuffle, leveldb>>

Hooks == {Order[i] : i \in 1 .. Len(Order)}

VARIABLES
  phase,        \* where onLoad is
  at,           \* the hook it is at, as an index of Order
  step,         \* the call it makes next
  based,        \* the hooks that have set their base
  backed,       \* the hooks that have what they need
  patched,      \* the hooks whose code is in the server
  installed,    \* the hooks' installed
  stuck         \* the hooks whose page could not be made writable by remove

hooks == <<based, backed, patched, installed>>
vars == <<phase, at, step, hooks, stuck>>

Phases == {"unloaded", "loading", "rollingBack", "loaded", "failed"}
Steps == {"check", "prepare", "unprotect", "patch", "protect", "restore",
          "discard", "remove", "giveUp"}

TypeOK ==
  /\ phase \in Phases
  /\ at \in 1 .. Len(Order)
  /\ step \in Steps
  /\ based \subseteq Hooks
  /\ backed \subseteq Hooks
  /\ patched \subseteq Hooks
  /\ installed \subseteq Hooks
  /\ stuck \subseteq Hooks

Init ==
  /\ phase = "unloaded"
  /\ at = 1
  /\ step = "check"
  /\ based = {}
  /\ backed = {}
  /\ patched = {}
  /\ installed = {}
  /\ stuck = {}

Hook == Order[at]
Doing(p, s) == phase = p /\ step = s

-----------------------------------------------------------------------------
(* The ways on.                                                            *)

Continue(s) == step' = s /\ UNCHANGED <<phase, at>>

Installed ==
  /\ IF at < Len(Order)
     THEN at' = at + 1 /\ UNCHANGED phase
     ELSE phase' = "loaded" /\ UNCHANGED at
  /\ step' = "check"

(* Slip: what is already installed stays.                                  *)
ThrowPlainly ==
  /\ phase' = "failed"
  /\ step' = "check"
  /\ UNCHANGED at

(* install throws.  area's is called before the try: onLoad throws at      *)
(* once.  The others' lead to the removal of all, the last hook first.     *)
Throw ==
  IF at = 1
  THEN phase' = "failed" /\ step' = "check" /\ UNCHANGED at
  ELSE phase' = "rollingBack" /\ at' = Len(Order) /\ step' = "remove"

(* A remove is done: the rollback goes on to the hook before; leveldb's    *)
(* install, which called its own remove, throws.                           *)
Removed ==
  IF phase = "loading" THEN Throw
  ELSE IF at > 1
       THEN at' = at - 1 /\ step' = "remove" /\ UNCHANGED phase
       ELSE phase' = "failed" /\ step' = "check" /\ UNCHANGED at

-----------------------------------------------------------------------------
(* onLoad in a process that has not loaded the plugin before: verify_layout*)
(* accepts the server or throws.                                           *)
OnLoad ==
  /\ phase = "unloaded"
  /\ phase' \in {"loading", "failed"}
  /\ UNCHANGED <<at, step, hooks, stuck>>

(* The module stays in the process after the plugin is unloaded, with its  *)
(* static flag: another onLoad throws.                                     *)
OnLoadAgain ==
  /\ phase \in {"loaded", "failed"}
  /\ UNCHANGED vars

(* The server's bytes, the processor, the clock's frequency or the wire    *)
(* compatibility are checked.                                              *)
CheckFails ==
  /\ Doing("loading", "check")
  /\ based' \in {based, based \cup {Hook}}
  /\ Throw
  /\ UNCHANGED <<backed, patched, installed, stuck>>

Check ==
  /\ Doing("loading", "check")
  /\ based' = based \cup {Hook}
  /\ Continue(IF Hook.needs = "nothing" THEN "unprotect" ELSE "prepare")
  /\ UNCHANGED <<backed, patched, installed, stuck>>

(* create_trampoline, registry.reserve                                     *)
Prepare ==
  /\ Doing("loading", "prepare")
  /\ backed' = backed \cup {Hook}
  /\ Continue("unprotect")
  /\ UNCHANGED <<based, patched, installed, stuck>>

PrepareFails ==
  /\ Doing("loading", "prepare")
  /\ Throw
  /\ UNCHANGED <<hooks, stuck>>

Unprotect ==
  /\ Doing("loading", "unprotect")
  /\ Continue("patch")
  /\ UNCHANGED <<hooks, stuck>>

UnprotectFails ==
  /\ Doing("loading", "unprotect")
  /\ Continue("discard")
  /\ UNCHANGED <<hooks, stuck>>

Patch ==
  /\ Doing("loading", "patch")
  /\ patched' = patched \cup {Hook}
  /\ installed' = IF Hook.early THEN installed \cup {Hook} ELSE installed
  /\ Continue("protect")
  /\ UNCHANGED <<based, backed, stuck>>

Protect ==
  /\ Doing("loading", "protect")
  /\ installed' = installed \cup {Hook}
  /\ Installed
  /\ UNCHANGED <<based, backed, patched, stuck>>

ProtectFails ==
  /\ Doing("loading", "protect")
  /\ Hook.seesLast
  /\ Continue(IF Hook.early THEN "remove" ELSE "restore")
  /\ UNCHANGED <<hooks, stuck>>

(* The page is writable still: the server's bytes are put back.            *)
Restore ==
  /\ Doing("loading", "restore")
  /\ patched' = patched \ {Hook}
  /\ Continue("discard")
  /\ UNCHANGED <<based, backed, installed, stuck>>

(* An install that fails unmaps its trampoline.  The registry is kept.     *)
Discard ==
  /\ Doing("loading", "discard")
  /\ backed' = IF Hook.needs = "trampoline" THEN backed \ {Hook} ELSE backed
  /\ Throw
  /\ UNCHANGED <<based, patched, installed, stuck>>

-----------------------------------------------------------------------------
Removing == step = "remove" /\ phase \in {"loading", "rollingBack"}

(* remove of a hook that is not installed: its install has left nothing to *)
(* unmap.                                                                  *)
NotInstalled ==
  /\ Removing
  /\ Hook \notin installed
  /\ Removed
  /\ UNCHANGED <<hooks, stuck>>

(* Slip: the trampoline is unmapped before the server's bytes are back.    *)
UnhookTooLate ==
  /\ Removing
  /\ Hook \in installed
  /\ backed' = backed \ {Hook}
  /\ Continue("giveUp")
  /\ UNCHANGED <<based, patched, installed, stuck>>

(* remove puts the server's bytes back...                                  *)
Unhook ==
  /\ Removing
  /\ Hook \in installed
  /\ patched' = patched \ {Hook}
  /\ stuck' = stuck \ {Hook}
  /\ Continue("giveUp")
  /\ UNCHANGED <<based, backed, installed>>

(* ... unless the page cannot be made writable: then it returns...         *)
UnhookFails ==
  /\ Removing
  /\ Hook \in installed
  /\ ~Hook.forgets
  /\ stuck' = stuck \cup {Hook}
  /\ Removed
  /\ UNCHANGED hooks

(* ... or goes on as if the bytes were back.                               *)
UnhookForgets ==
  /\ Removing
  /\ Hook \in installed
  /\ Hook.forgets
  /\ stuck' = stuck \cup {Hook}
  /\ Continue("giveUp")
  /\ UNCHANGED hooks

(* installed = false; munmap or registry.clear.                            *)
GiveUp ==
  /\ step = "giveUp"
  /\ backed' = backed \ {Hook}
  /\ installed' = installed \ {Hook}
  /\ Removed
  /\ UNCHANGED <<based, patched, stuck>>

-----------------------------------------------------------------------------
InstallStep ==
  \/ CheckFails
  \/ Check
  \/ Prepare
  \/ PrepareFails
  \/ Unprotect
  \/ UnprotectFails
  \/ Patch
  \/ Protect
  \/ ProtectFails
  \/ Restore
  \/ Discard

RemoveStep ==
  \/ NotInstalled
  \/ Unhook
  \/ UnhookFails
  \/ UnhookForgets
  \/ GiveUp

Next == OnLoad \/ OnLoadAgain \/ InstallStep \/ RemoveStep
Spec == Init /\ [][Next]_vars

-----------------------------------------------------------------------------
(* All hooks are in the server when onLoad returns, none when it throws,   *)
(* but those whose page could not be made writable.                        *)
AllOrNothing ==
  /\ phase = "loaded" => patched = Hooks /\ installed = Hooks
  /\ phase = "failed" => patched \subseteq stuck

(* Whoever runs into a hook, at any moment of the loading or the rollback, *)
(* finds what the hook needs; only a hook that remove has forgotten may    *)
(* lack it.                                                                *)
BackedUnlessForgotten ==
  \A h \in patched :
    h.needs # "nothing" /\ ~(h \in stuck /\ h.forgets) => h \in backed

(* Direct construction allocates its output with the base that the reserve *)
(* hook's install has set (allocate_output in reserve.cpp).                *)
AllocatorReady == direct \in patched => construction \in based

(* docs/native-compatibility.md: "Failed installation retains its rollback *)
(* path" - a rollback leaves no hook in the server without what it needs.  *)
RollbackLeavesNoHalfHook ==
  phase = "failed" => \A h \in patched : h.needs # "nothing" => h \in backed
=============================================================================
