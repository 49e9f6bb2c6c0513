------------------------------- MODULE Manager -------------------------------
(***************************************************************************)
(* man.c: the parent process, which turns what the user types into         *)
(* commands for the current host and waits for the reply to each of them.  *)
(* A poll that finds no reply changes nothing and is left out, as are the  *)
(* commands that only print.                                               *)
(*                                                                         *)
(* A definition named X_Slip stands next to a definition X and is what a   *)
(* slip in the code would make of it; nothing uses it.                     *)
(***************************************************************************)
EXTENDS ManagerLink

CONSTANT Menu \* Menu[h]: the commands the user gives to host h

ASSUME MenuAssumption == Menu \in [Hosts -> SUBSET Command]

VARIABLES
  currhost, \* the host the manager is connected to
  manPc,    \* at the prompt, in manWaitForReply, or after kill(0, SIGKILL)
  cmd       \* the last command given

managerVars == << currhost, manPc, cmd >>

ManagerInit ==
  /\ currhost = 0
  /\ manPc = "prompt"
  /\ cmd = NoArg

-----------------------------------------------------------------------------
\* manSetNetAddr, manTransmitPacket, ...: send the command and wait.
manCommandSend(c) ==
  /\ manPc = "prompt"
  /\ toHost' = [toHost EXCEPT ![currhost] = Append(@, c)]
  /\ cmd' = c
  /\ manPc' = "wait"
  /\ UNCHANGED << currhost, fromHost >>

manChangeHost_FromOne(h) ==
  /\ manPc = "prompt"
  /\ currhost' = h + 1
  /\ UNCHANGED << manPc, cmd, toHost, fromHost >>

manChangeHost(h) ==
  /\ manPc = "prompt"
  /\ currhost' = h
  /\ UNCHANGED << manPc, cmd, toHost, fromHost >>

\* A loop that ends after its first poll.
manWaitForReply_Once ==
  /\ manPc = "wait"
  /\ fromHost' = [fromHost EXCEPT ![currhost] = << >>]
  /\ manPc' = "prompt"
  /\ UNCHANGED << currhost, cmd, toHost >>

\* The poll that finds the reply ends the wait.
manWaitForReply ==
  /\ manPc = "wait"
  /\ fromHost[currhost] # << >>
  /\ fromHost' = [fromHost EXCEPT ![currhost] = << >>]
  /\ manPc' = "prompt"
  /\ UNCHANGED << currhost, cmd, toHost >>

\* The user quits; main then kills all the processes.
managerQuit ==
  /\ manPc = "prompt"
  /\ manPc' = "quit"
  /\ UNCHANGED << currhost, cmd, toHost, fromHost >>
=============================================================================
