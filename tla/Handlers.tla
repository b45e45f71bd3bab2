------------------------------ MODULE Handlers ------------------------------
(***************************************************************************)
(* What each request handler of the daemon does with the five mutexes of   *)
(* AppState and with the network (apps/daemon/src/http_server.rs): the     *)
(* mutexes in the order it locks them, Release where the guards taken so   *)
(* far are dropped, Relay where it talks to the relay.  A handler may      *)
(* return early at any Release; an error return inside a section drops the *)
(* same guards and is taken at the section's end.                          *)
(***************************************************************************)
EXTENDS Naturals, Sequences

Release == 0
Bridge == 1
Authority == 2
Catalog == 3
Store == 4
Ledger == 5
Relay == 6

Mutexes == 1..5
Step == 0..6

\* The guards of one section, in the order they are locked.
Section(locks) == locks \o <<Release>>

BridgeOnly == Section(<<Bridge>>)
AuthorityOnly == Section(<<Authority>>)
AuthorityStore == Section(<<Authority, Store>>)
CatalogStore == Section(<<Catalog, Store>>)
AuthorityCatalogStore == Section(<<Authority, Catalog, Store>>)
CatalogStoreLedger == Section(<<Catalog, Store, Ledger>>)
AuthorityToLedger == Section(<<Authority, Catalog, Store, Ledger>>)
LedgerStore == Section(<<Ledger, Store>>)

\* Every route that is not detached runs with all five mutexes.
RoutePaths == {Section(<<Bridge, Authority, Catalog, Store, Ledger>>)}

\* devices/revoke and session/remove-device post their commits with all five
\* mutexes held.
DeviceChangePaths ==
    {Section(<<Bridge, Authority, Catalog, Store, Ledger, Relay>>)}

CreateInvitePaths ==
    {BridgeOnly \o AuthorityStore \o <<Relay>> \o CatalogStore \o AuthorityOnly}

ConsumeInvitePaths ==
    {BridgeOnly \o AuthorityOnly \o <<Relay>> \o AuthorityOnly
        \o AuthorityStore \o CatalogStore \o AuthorityOnly \o <<Relay>>
        \o AuthorityOnly}

AutoSyncPaths ==
    {BridgeOnly \o AuthorityOnly \o AuthorityOnly,
     BridgeOnly \o AuthorityOnly \o <<Relay>> \o AuthorityStore}

CompleteSessionPaths ==
    {BridgeOnly \o AuthorityOnly \o <<Relay>> \o CatalogStore \o AuthorityStore}

ApprovePaths ==
    {BridgeOnly \o AuthorityStore \o CatalogStore \o <<Relay>> \o AuthorityOnly}

RevokeInvitePaths == {BridgeOnly \o AuthorityOnly \o <<Relay>>}

\* attachment_relay_pin, which every attachment handler starts with.
AttachmentRelayPin == BridgeOnly \o AuthorityOnly

UploadChunkPaths == {AttachmentRelayPin \o <<Relay>>}

UploadCompletedPaths ==
    {AttachmentRelayPin \o AuthorityOnly \o <<Relay>> \o AuthorityOnly}

DownloadChunkPaths == {AttachmentRelayPin \o AuthorityOnly \o <<Relay>>}

\* The result of the post is applied with the ledger locked before the store.
AttachmentSendPaths ==
    {AttachmentRelayPin \o AuthorityOnly \o <<Relay>> \o CatalogStoreLedger
        \o <<Relay>> \o LedgerStore \o AuthorityOnly}

DeliveryPostPaths ==
    {Section(<<Bridge, Authority>>) \o CatalogStoreLedger \o <<Relay>> \o result :
        result \in {CatalogStoreLedger, AuthorityToLedger}}

DeliveryRetryPaths ==
    {Section(<<Bridge, Authority, Catalog, Store, Ledger>>) \o <<Relay>> \o result :
        result \in {CatalogStoreLedger, AuthorityToLedger}}

DeliveryAckPaths ==
    {Section(<<Bridge, Authority>>) \o <<Relay>> \o result :
        result \in {CatalogStoreLedger, AuthorityCatalogStore}}

\* Slip: the guards of the first section live through the relay request.
DeliverySyncPathsKeepGuards ==
    {<<Bridge, Authority, Relay>> \o AuthorityCatalogStore}

DeliverySyncPaths ==
    {Section(<<Bridge, Authority>>) \o <<Relay>> \o result :
        result \in {AuthorityCatalogStore,
                    AuthorityToLedger \o <<Relay>> \o AuthorityStore}}

\* retry_due_deliveries_detached with one due record; more repeat the tail.
RetryDue == AuthorityToLedger \o <<Relay>> \o AuthorityToLedger

MaintenancePaths ==
    {AuthorityOnly \o <<Relay>> \o fetched \o RetryDue :
        fetched \in {<<>>, AuthorityStore, AuthorityToLedger \o <<Relay>>}}

\* websocket_events authorizes on the thread of the runtime itself, without a
\* slot: first the UI origin, then the session.
WebsocketPaths == {BridgeOnly \o BridgeOnly}

\* Every handler but attachment_send.
OrderedPaths ==
    RoutePaths \cup DeviceChangePaths \cup CreateInvitePaths
    \cup ConsumeInvitePaths \cup AutoSyncPaths \cup CompleteSessionPaths
    \cup ApprovePaths \cup RevokeInvitePaths \cup UploadChunkPaths
    \cup UploadCompletedPaths \cup DownloadChunkPaths \cup DeliveryPostPaths
    \cup DeliveryRetryPaths \cup DeliveryAckPaths \cup DeliverySyncPaths
    \cup MaintenancePaths

\* Locked in path before position j and not released before it.
HeldAt(path, j) ==
    {path[i] : i \in {k \in 1..(j - 1) :
        path[k] \in Mutexes /\ \A n \in k..(j - 1) : path[n] # Release}}

\* The path locks its mutexes in the order of their numbers.
LocksInOrder(path) ==
    \A j \in 1..Len(path) : path[j] \in Mutexes =>
        \A m \in HeldAt(path, j) : m < path[j]

\* And it holds none when it ends.
WellFormed(path) == LocksInOrder(path) /\ HeldAt(path, Len(path) + 1) = {}
=============================================================================
