----------------------------- MODULE MCSshAgent -----------------------------
(***************************************************************************)
(* An instance of SshAgent for TLC, with bytes up to 15, lengths of one byte, *)
(* and lengths in the reply as large as a usize.                             *)
(***************************************************************************)
EXTENDS SshAgent

\* An ed25519 key, another one, one of another type, and a long one.
k1 == [type |-> <<9>>, pk |-> <<1>>]
k2 == [type |-> <<9>>, pk |-> <<2>>]
rsa == [type |-> <<8>>, pk |-> <<1>>]
long == [type |-> <<9>>, pk |-> <<1, 1>>]

MCKeyLists ==
  {<<>>} \cup {<<k>> : k \in {k1, k2, rsa}}
    \cup {<<k, l>> : k \in {k1, k2, rsa, long}, l \in {k1, k2}}

MCWants == {None, <<2>>}
MCMessage == <<7>>

\* Any five bytes of a few after a message number, and everything shorter.
MCGarbage ==
  UNION {{<<number>> \o body : body \in [1..n -> {0, 1, 9, 15}]} :
           number \in {IDENTITIES_ANSWER, SIGN_RESPONSE}, n \in 0..5}
=============================================================================
