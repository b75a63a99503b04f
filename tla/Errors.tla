------------------------------- MODULE Errors -------------------------------
(***************************************************************************)
(* The errors of internal/common/errors/errors.go.  An error is the        *)
(* sequence of its layers, the outermost first, and nil has none.  A layer *)
(* is the code of a CustomError, whose Cause is what follows, or a plain   *)
(* one: a leaf, or what errors.Wrap of github.com/pkg/errors or "%w" of    *)
(* fmt.Errorf puts around an error.  Messages are left out.                *)
(***************************************************************************)
EXTENDS Sequences

Codes ==
  {"ERR_QUEUE_OVERFLOW", "ERR_FIRMWARE_MISMATCH", "ERR_HIGH_LATENCY",
   "ERR_STORAGE_FAILURE", "ERR_NETWORK_PACKET_LOSS"}

Plain == "plain"
Nil == <<>>
Leaf == <<Plain>>

(* NewNotFound, which the handlers of the API call, is not in the file.     *)
NotFoundCode == "not found"

(* A constructor of a CustomError, and a wrapper of another package.        *)
Coded(code, cause) == <<code>> \o cause
Foreign(err) == <<Plain>> \o err

(* The type assertion that err is a pointer to a CustomError.               *)
IsCustom(err) == err # Nil /\ Head(err) # Plain

(* Mutant of Is: the whole chain is searched.                               *)
IsAnywhere(err, code) == \E i \in DOMAIN err : err[i] = code

(* Is(err, target) for a target that the caller has just made: codes of the *)
(* outermost layers are compared, and below them errors.Is compares         *)
(* pointers, of which a new one is equal to none.                           *)
Is(err, code) == IsCustom(err) /\ Head(err) = code

(* Mutant of Wrap: CustomErrors are wrapped as all others.                  *)
WrapForeign(err) == IF err = Nil THEN Nil ELSE Foreign(err)

(* A new CustomError with the code and the cause of err, or a plain layer.  *)
Wrap(err) ==
  CASE err = Nil     -> Nil
    [] IsCustom(err) -> Coded(Head(err), Tail(err))
    [] OTHER         -> Foreign(err)

New(err) == Wrap(err)
=============================================================================
