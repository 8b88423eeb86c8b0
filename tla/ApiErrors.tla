------------------------------- MODULE ApiErrors -------------------------------
(* What a view answers when the database refuses its statement, or diesel       *)
(* refuses to build it: DbErrorConverter of src/api/src/error.rs. A converter   *)
(* is the set of its flags that are set.                                        *)

FkToNotFound      == "fk_violation_to_not_found"
UniqueToExists    == "unique_violation_to_exists"
NoChangesToUpdate == "query_builder_to_no_update"

\* The refusals of a statement that the API's views can meet.
Refusal == {"ForeignKeyViolation", "UniqueViolation", "CheckViolation", "NoChangesToSave"}

\* DbErrorConverter::convert. What no flag converts is reported as it is.
Convert(flags, refusal) ==
  CASE refusal = "ForeignKeyViolation" /\ FkToNotFound \in flags    -> "NotFound"
    [] refusal = "UniqueViolation" /\ UniqueToExists \in flags      -> "AlreadyExists"
    [] refusal = "NoChangesToSave" /\ NoChangesToUpdate \in flags   -> "NoUpdate"
    [] OTHER                                                        -> "DatabaseError"

\* The answers that may be made of a refusal.
ErrorAnswer == {Convert(flags, refusal) :
  flags \in SUBSET {FkToNotFound, UniqueToExists, NoChangesToUpdate}, refusal \in Refusal}
================================================================================
