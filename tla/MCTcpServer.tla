---------------------------- MODULE MCTcpServer -----------------------------
(* TcpServer on a small instance for TLC, on both platforms: a behaviour is *)
(* one of a process on Windows or of one on Linux.                          *)
EXTENDS TcpServer

CONSTANTS c1, c2, c3

VARIABLE platform

Linux == INSTANCE TcpServer WITH Windows <- FALSE

OnWindows == platform = "Windows"
OnLinux == platform = "Linux"

PlatformInit == platform \in {"Windows", "Linux"} /\ Init

\* Another thread holds a descriptor, or a third connection comes.
InSession == phase[c3] = "new" \/ \A f \in Fds : owner[f] # Other

WindowsNext == OnWindows /\ Next /\ InSession' /\ UNCHANGED platform
LinuxNext == OnLinux /\ Linux!Next /\ InSession' /\ UNCHANGED platform

PlatformSpec ==
    /\ PlatformInit /\ [][WindowsNext \/ LinuxNext]_<<platform, vars>>
    \* A thread of its own runs the loop
    /\ WF_vars(OnWindows /\ server_loop)

\* No connection that is followed waits for ever, be it that the client has sent
\* something or that it left, where select looks at all it is asked about (TcpServer,
\* ServesAll).
WindowsServesAll == OnWindows => ServesAll
=============================================================================
