-------------------------- MODULE MCCleanupThread --------------------------
EXTENDS CleanupThread
CONSTANTS a, b, c, gpu0
MCDevices == <<gpu0>>
\* Three items on one list, of a device or of the host.
OneList  == [i \in {a, b, c} |-> gpu0]
HostList == [i \in {a, b, c} |-> Host]
\* Items on two lists: two of one device and one of the host.
TwoLists == [i \in {a, b, c} |-> IF i = c THEN Host ELSE gpu0]
MCPlacements == {OneList, HostList}
MCOneList == {OneList}
MCTwoLists == {TwoLists}
=============================================================================
