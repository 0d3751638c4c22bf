-------------------------- MODULE MCPhoneVerification --------------------------
(* Model-checking instance of PhoneVerification.                             *)
EXTENDS PhoneVerification, TLC

(* A behaviour of the large instance is followed as long as it plays one of  *)
(* three scenes.                                                             *)

UsersSeen == {u \in Users : user[u].state # "absent" \/ \E r \in Requests : up[r].user = u}
PhonesSeen ==
  {p \in Phones : \/ \E u \in Users : user[u].phone = p
                  \/ \E s \in Sessions : row[s].phone = p
                  \/ InHand(p) # {}}

\* The code is sent and entered, as it was.
Prompt ==
  /\ \A s \in Sessions : ~row[s].codeExpired
  /\ \A r \in Requests : up[r].pc = "count" => up[r].right

\* One session, whose code may be mistaken or expire.
SessionScene == Len(created) <= 1 /\ Cardinality(UsersSeen) <= 1

\* One user, who asks for several phones.
PhonesScene == Prompt /\ Cardinality(UsersSeen) <= 1

\* One phone, which several users ask for.
UsersScene == Prompt /\ Cardinality(PhonesSeen) <= 1

InScene == SessionScene \/ PhonesScene \/ UsersScene

Symmetry == Permutations(Users) \union Permutations(Phones) \union
            Permutations(Sessions) \union Permutations(Requests)
=============================================================================
