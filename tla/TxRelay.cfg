SPECIFICATION Spec
CONSTANTS
    p1 = p1
    p2 = p2
    p3 = p3
    Peers = {p1, p2, p3}
    Hashes = {"a", "b", "bw", "d"}
    Rank <- MCRank
    Txs = {"A", "B", "D"}
    Txid <- MCTxid
    Wtxid <- MCWtxid
    Parents <- MCParents
    Preferred = {p2}
    WtxidPeers = {p2}
    Unlimited = {}
    Honest = {p1}
    NONPREF_PEER_TX_DELAY = 1
    TXID_RELAY_DELAY = 1
    OVERLOADED_PEER_TX_DELAY = 1
    GETDATA_TX_INTERVAL = 2
    MAX_PEER_TX_ANNOUNCEMENTS = 2
    MAX_PEER_TX_REQUEST_IN_FLIGHT = 1
    Worlds <- MCWorlds
    MaxBack = 1
    MaxCallbacks = 2
INVARIANTS TrackerSane KnownNotTracked OrphanQueued
PROPERTIES EventuallyKnown
