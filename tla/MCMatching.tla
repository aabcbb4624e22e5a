----------------------------- MODULE MCMatching -----------------------------
(* Who matches whom: two bank rows, one to three batches                   *)
EXTENDS MCPipeline

MatchingBank ==
  {Credit(n, c, d) : n \in MCNarrations, c \in {9764, 9766, 9864, Blank}, d \in {10, 12, 13}}
  \cup {Credit("names U1", 19528, 10), Credit("cut", 19528, 10)}

MatchingSettlement ==
  {<<Payment("s1", "U1", "-")>>,
   <<Payment("s1", "u1", "-")>>,
   <<Payment("s1", "U1", "-"), Payment("s2", "U2", "-")>>,
   <<Payment("s1", "U2", "-"), Payment("s2", "u1", "-")>>,
   <<Payment("s1", "U1", "-"), Payment("s2", "u1", "-"), Payment("s3", "U2", "-")>>,
   <<Payment("s1", "U1", "-"), [Payment("s2", "U1", "-") EXCEPT !.settled_at = 11]>>}

MatchingInputs ==
  RunsWith(MatchingBank \X MatchingBank, MatchingSettlement, {<<>>}, {AllStages}, {1500, 2700})
=============================================================================
