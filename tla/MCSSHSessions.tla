---------------------------- MODULE MCSSHSessions ----------------------------
\* SSHSessions for TLC: one host, so that all sessions share a control socket,
\* and clients that do not differ.
EXTENDS SSHSessions, TLC

SameClients == Permutations(Client)

=============================================================================
