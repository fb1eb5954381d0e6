------------------------------ MODULE Members ------------------------------
(***************************************************************************)
(* The members of an app and the two searches of the back office over them *)
(* (src/member): the list of members, and how many there are of each role. *)
(* Both build one query, to which an observer per condition joins a        *)
(* subquery; the tables of tags, categories and permission groups are      *)
(* joined row by row, those of phones and properties grouped by member.    *)
(***************************************************************************)
EXTENDS Schema, Naturals, FiniteSets, Sequences

CONSTANTS
  MemberIds, Names, Emails, Roles,
  Tags, Categories, Groups, Phones, PropertyIds, Values,
  Conditions,   \* searches: see Condition
  FirstMembers  \* the members at first: MemberIds -> row or NULL

Row == [name: Names, email: Emails, role: Roles, tags: SUBSET Tags,
        categories: SUBSET Categories, groups: SUBSET Groups,
        phones: SUBSET Phones, properties: [PropertyIds -> Values \cup {NULL}]]

(* A condition that is given is the set of names its pattern matches; the  *)
(* properties are a list of a property and the values its pattern matches. *)
Maybe(S) == S \cup {NULL}
IsCondition(c) ==
  /\ DOMAIN c = {"role", "tag", "category", "group", "phone", "properties"}
  /\ c.role \in Maybe(Roles) /\ c.tag \in Maybe(SUBSET Tags)
  /\ c.category \in Maybe(SUBSET Categories) /\ c.group \in Maybe(SUBSET Groups)
  /\ c.phone \in Maybe(SUBSET Phones)
  /\ c.properties \in Maybe(Seq(PropertyIds \X SUBSET Values) \ {<<>>})

ASSUME MembersAssumption ==
  /\ "general-member" \in Roles /\ NULL \notin Roles
  /\ IsFiniteSet(MemberIds) /\ IsFiniteSet(Tags) /\ IsFiniteSet(Categories)
  /\ IsFiniteSet(Groups)
  /\ NULL \notin Row /\ NULL \notin MemberIds
  /\ \A c \in Conditions : IsCondition(c)
  /\ \A f \in FirstMembers : f \in [MemberIds -> Row \cup {NULL}]

VARIABLE members  \* member and what hangs on it: id -> row, or NULL

MembersTypeOK == members \in [MemberIds -> Row \cup {NULL}]

Existing == {m \in MemberIds : members[m] # NULL}

-----------------------------------------------------------------------------
(* The rows the observers join to the row of a member: those of the names  *)
(* that match, or one row (NULL) of a subquery that is not joined or is    *)
(* grouped by member.                                                      *)
Joined(pattern, names) == IF pattern = NULL THEN {NULL} ELSE names \cap pattern
JoinedGrouped(pattern, names) ==
  IF pattern = NULL \/ names \cap pattern # {} THEN {NULL} ELSE {}

BugJoinedProperties(list, properties) ==  \* without the HAVING
  IF list = NULL \/ \E i \in 1..Len(list) : properties[list[i][1]] \in list[i][2]
  THEN {NULL} ELSE {}

(* WHERE any of the properties fits, GROUP BY member, HAVING as many fit   *)
(* as were asked for.                                                      *)
JoinedProperties(list, properties) ==
  IF list = NULL
       \/ Len(list) = Cardinality({p \in PropertyIds : \E i \in 1..Len(list) :
                                     list[i][1] = p /\ properties[p] \in list[i][2]})
  THEN {NULL} ELSE {}

(* execute: the rows of the query for member m.                            *)
JoinedRows(c, m) ==
  LET row == members[m] IN
    [tag: Joined(c.tag, row.tags), category: Joined(c.category, row.categories),
     group: Joined(c.group, row.groups), phone: JoinedGrouped(c.phone, row.phones),
     properties: JoinedProperties(c.properties, row.properties)]

(* getMembersByCondition, all its pages together: an entity per member.    *)
GetMembersByCondition(c) ==
  {m \in Existing : c.role \in {NULL, members[m].role} /\ JoinedRows(c, m) # {}}

(* getMembersRoleCountList: leaves out the condition on the role (and on   *)
(* the id and the user name), and counts the rows of the join.             *)
RoleCount(c, role) ==
  LET counted == {m \in Existing : members[m].role = role} IN
  Cardinality(UNION {{m} \X JoinedRows(c, m) : m \in counted})

-----------------------------------------------------------------------------
Fits(pattern, names) == pattern = NULL \/ names \cap pattern # {}
FitsOnce(pattern, names) == pattern = NULL \/ Cardinality(names \cap pattern) <= 1

FitsAll(c, m) ==
  LET row == members[m] IN
  /\ Fits(c.tag, row.tags) /\ Fits(c.category, row.categories)
  /\ Fits(c.group, row.groups) /\ Fits(c.phone, row.phones)
  /\ c.properties # NULL =>
       \A i \in 1..Len(c.properties) :
         row.properties[c.properties[i][1]] \in c.properties[i][2]

AsksOnce(c) ==
  c.properties # NULL =>
    \A i, j \in 1..Len(c.properties) :
      c.properties[i][1] = c.properties[j][1] => i = j

(* The list holds exactly the members who fit every condition, when no     *)
(* property is asked for twice (then nobody is listed: one row cannot be   *)
(* counted twice).  The counts by role are those of the list without a     *)
(* condition on the role, but a member of whom several tags, categories or *)
(* groups match is counted several times; never less than once.            *)
SearchesAgree ==
  \A c \in Conditions :
    /\ AsksOnce(c) =>
         GetMembersByCondition(c) =
           {m \in Existing : c.role \in {NULL, members[m].role} /\ FitsAll(c, m)}
    /\ ~AsksOnce(c) => GetMembersByCondition(c) = {}
    /\ \A role \in Roles :
         LET listed == GetMembersByCondition([c EXCEPT !.role = role]) IN
         /\ RoleCount(c, role) >= Cardinality(listed)
         /\ (\A m \in listed : /\ FitsOnce(c.tag, members[m].tags)
                               /\ FitsOnce(c.category, members[m].categories)
                               /\ FitsOnce(c.group, members[m].groups))
              => RoleCount(c, role) = Cardinality(listed)

=============================================================================
