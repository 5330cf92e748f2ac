---------------------------- MODULE HostContract ----------------------------
(***************************************************************************)
(* What the GUI may rely on when it leaves its shells with the PTY host    *)
(* (manager.rs: on_gui_connect, handle_control, on_gui_disconnect; the     *)
(* serve loop): when a host holds them, when it lets go of them, and what  *)
(* of the last word of a client stands.                                    *)
(*                                                                         *)
(* Nothing is said of how: neither of generations, deadlines and clocks,   *)
(* nor of the processes, their readers and kills, nor of the MCP holder.   *)
(***************************************************************************)
CONSTANT Tabs

VARIABLES at,        \* "fresh", "served", "held", "ending" or "gone"
          shell,     \* tab -> "none", "runs" or "ended" (its output remains)
          streams,   \* tabs whose output goes to the client
          survives,  \* the host outlives a GUI that vanishes
          adopted,   \* this client has shown that it knows the host's token
          armed,     \* the next drop leads to a hold
          bounded,   \* a hold does not outlast a full silence
          quitting,  \* a drop without an arm ends the host
          silent     \* a full silence since the last drop, no client adopted

contractVars ==
  <<at, shell, streams, survives, adopted, armed, bounded, quitting, silent>>

NoShells == [t \in Tabs |-> "none"]
Running == {t \in Tabs : shell[t] = "runs"}

Init ==
  /\ at = "fresh"
  /\ shell = NoShells
  /\ streams = {}
  /\ survives \in BOOLEAN
  /\ adopted = FALSE
  /\ armed = FALSE /\ bounded = FALSE /\ quitting = FALSE
  /\ silent = FALSE

-----------------------------------------------------------------------------
(* A client, while it is served. *)

\* To connect is not to adopt: whatever the last client said still stands.
Connects ==
  /\ at \in {"fresh", "held"}
  /\ at' = "served"
  /\ adopted' = FALSE
  /\ UNCHANGED <<shell, streams, survives, armed, bounded, quitting, silent>>

Sets(t, state, out) ==
  /\ at = "served"
  /\ streams' = out
  /\ shell' = [shell EXCEPT ![t] = state]
  /\ UNCHANGED <<at, survives, adopted, armed, bounded, quitting, silent>>

Spawns(t) == Sets(t, "runs", streams \cup {t})
Closes(t) == shell[t] # "none" /\ Sets(t, "none", streams \ {t})
Streams(t) == shell[t] # "none" /\ Sets(t, shell[t], streams \cup {t})

\* What stands after a frame about the life of the host.
Stands(a, b, q) ==
  /\ at = "served"
  /\ armed' = a /\ bounded' = b /\ quitting' = q
  /\ UNCHANGED <<at, shell, streams, survives>>

Adopts == adopted' = TRUE /\ silent' = FALSE

\* The first authentic frame spends what an earlier client had said.
Announces ==
  /\ Adopts
  /\ IF adopted THEN Stands(armed, bounded, quitting)
                ELSE Stands(FALSE, FALSE, FALSE)

Arms(b) == survives /\ Adopts /\ Stands(TRUE, b, quitting /\ adopted)
Quits == Adopts /\ Stands(FALSE, FALSE, TRUE)
Disarms == Stands(FALSE, FALSE, quitting) /\ UNCHANGED <<adopted, silent>>

-----------------------------------------------------------------------------
(* The host, once its client has gone. *)

Holds(b) ==
  /\ at' = "held"
  /\ streams' = {}
  /\ adopted' = FALSE
  /\ silent' = FALSE
  /\ bounded' = b
  /\ UNCHANGED <<shell, survives, armed, quitting>>

LetsGo ==
  /\ at' = "ending"
  /\ shell' = NoShells
  /\ streams' = {}
  /\ adopted' = FALSE
  /\ UNCHANGED <<survives, armed, bounded, quitting, silent>>

\* An arm is honoured first; without one, only a client that vanished from
\* running shells is taken to have crashed, and is waited for.
Drops ==
  /\ at = "served"
  /\ \/ armed /\ Holds(bounded)
     \/ ~armed /\ (quitting \/ ~survives \/ Running = {}) /\ LetsGo
     \/ ~armed /\ ~(quitting \/ ~survives \/ Running = {}) /\ Holds(TRUE)

\* A client that is connected and stays silent does not extend a hold.
Expires ==
  /\ at \in {"served", "held"}
  /\ bounded /\ silent /\ ~adopted
  /\ LetsGo

\* Nobody to wait for: no client ever came, or no shell runs any more.
GivesUp ==
  /\ at \in {"fresh", "held"}
  /\ Running = {}
  /\ at' = "ending"
  /\ UNCHANGED <<shell, streams, survives, adopted, armed, bounded, quitting,
                 silent>>

Exits ==
  /\ at = "ending"
  /\ at' = "gone"
  /\ shell' = NoShells
  /\ streams' = {}
  /\ UNCHANGED <<survives, adopted, armed, bounded, quitting, silent>>

-----------------------------------------------------------------------------
(* A shell, and time. *)

Ends(t) ==
  /\ at # "gone"
  /\ shell[t] = "runs"
  /\ shell' = [shell EXCEPT ![t] = "ended"]
  /\ UNCHANGED <<at, streams, survives, adopted, armed, bounded, quitting,
                 silent>>

FallsSilent ==
  /\ at \in {"served", "held"}
  /\ ~adopted
  /\ silent' = TRUE
  /\ UNCHANGED <<at, shell, streams, survives, adopted, armed, bounded,
                 quitting>>

Next ==
  \/ Connects
  \/ Announces \/ Quits \/ Disarms
  \/ \E b \in BOOLEAN : Arms(b)
  \/ \E t \in Tabs : Streams(t) \/ Closes(t) \/ Spawns(t) \/ Ends(t)
  \/ Drops \/ Expires \/ GivesUp \/ Exits
  \/ FallsSilent

Spec == Init /\ [][Next]_contractVars
=============================================================================
