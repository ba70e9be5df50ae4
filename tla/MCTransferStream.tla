---------------------------- MODULE MCTransferStream ----------------------------
(* The state two streaming reasoners keep of an account.  Either the stream mock *)
(* runs: three transfers of one account, a late one among them, and a replay of  *)
(* one of them, twice, and one of another.  Or the account-takeover reasoner's   *)
(* processes compute the features of three logins, a late one among them.        *)
EXTENDS TransferStream, LoginFeatures

Transfer(event_id, account, at, amount) ==
    [event_id |-> event_id, account |-> account, at |-> at, amount |-> amount]

MCTransfers == {Transfer("t1", "a", 4, 1), Transfer("t2", "a", 3, 2), Transfer("t3", "a", 1, 4)}
MCMalformed == [event_id |-> "none", account |-> "none", at |-> 0, amount |-> 0]
MCReplayed == <<Transfer("t1", "a", 4, 1), Transfer("t4", "b", 2, 8), Transfer("t1", "a", 4, 1)>>

Login(event_id, at, traits, place) ==
    [event_id |-> event_id, account |-> "a", at |-> at, traits |-> traits, place |-> place]

MCLogins == {Login("l1", 2, {"ip1", "phone"}, 0), Login("l2", 4, {"ip2", "phone"}, 3),
             Login("l3", 3, {"ip1"}, 0)}

VARIABLE reasoner \* the one that runs

MCInit == /\ TransferInit /\ FeatureInit
          /\ reasoner \in {"mock-stream", "account-takeover"}

MCNext ==
    /\ \/ reasoner = "mock-stream" /\ TransferNext /\ UNCHANGED featureVars
       \/ reasoner = "account-takeover" /\ FeatureNext /\ UNCHANGED transferVars
    /\ UNCHANGED reasoner

MCSpec == MCInit /\ [][MCNext]_<<transferVars, featureVars, reasoner>>
=============================================================================
