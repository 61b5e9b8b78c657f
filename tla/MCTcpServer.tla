----------------------------- MODULE MCTcpServer -----------------------------
EXTENDS TcpServer

CONSTANTS c1, c2, c3, hostA, hostB
ThreeClients == {c1, c2, c3}
TwoHosts == [c \in ThreeClients |-> IF c = c3 THEN hostB ELSE hostA]
TwoNames == {"DesktopStreaming", "FileTransfer"}
=============================================================================
