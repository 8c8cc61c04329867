-------------------------------- MODULE Status --------------------------------
(***************************************************************************)
(* The statuses that the calls of the library answer.  A Status is null or *)
(* shares an implementation with a class, a code and two answers: is there *)
(* something to say, and may the caller go on?  The three tests that code  *)
(* makes of a status (as a bool, success(), failure()) are not negations   *)
(* of each other: "read successful" converts to true and is a success.     *)
(*                                                                         *)
(* The texts of description() and the values only they use (errno, file    *)
(* names, positions) are left out.                                         *)
(***************************************************************************)
EXTENDS Integers

(* The implementation's answers; count is that of a read or a write. *)
Pimpl(class, recoverable) ==
  [class |-> class, code |-> 0, recoverable |-> recoverable, count |-> 0]

ErrorPimpl(class)  == Pimpl(class, FALSE)
StatusPimpl(class) == Pimpl(class, TRUE)
WithCode(pimpl, code) == [pimpl EXCEPT !.code = code]

(* The default constructor: the null implementation. *)
NoStatus == StatusPimpl("NO_STATUS")

(* informationAvailable(), which is also the conversion to bool.  No class *)
(* of the library overrides the default implementation, which says yes.    *)
Informs(status)   == status.class # "NO_STATUS"
Recoverable(status) == status.recoverable
Succeeded(status) == ~Informs(status) \/ Recoverable(status)
Failed(status)    == ~Recoverable(status)

(* The families that the reported classes derive from. *)
InternalError         == ErrorPimpl("CONTAINER_INTERNAL_ERROR")
MetadataMismatchError == InternalError
HeaderError           == ErrorPimpl("CONTAINER_HEADER_ERROR")
FilesystemStatus      == StatusPimpl("FILESYSTEM_STATUS")
FilesystemError       == ErrorPimpl("FILESYSTEM_ERROR")

------------------------------------------------------------------------------
(* The container. *)
StreamingReadError       == WithCode(ErrorPimpl("STREAMING_READ_ERROR"), 1)
ContainerUnavailable     == WithCode(InternalError, 1)
StreamIdentifierMismatch == WithCode(MetadataMismatchError, 2)
FilenameMismatch         == WithCode(MetadataMismatchError, 5)
ContainerDataError       == WithCode(MetadataMismatchError, 7)
VersionDownlevelStatus   == WithCode(ErrorPimpl("CONTAINER_VERSION_DOWNLEVEL"), 8)
HeaderIdentifierInvalid  == WithCode(HeaderError, 9)
HeaderVersionInvalid     == WithCode(HeaderError, 10)
HeaderCrcError           == WithCode(HeaderError, 11)

(* The media. *)
ReadSuccessful(bytesRead)     == [WithCode(FilesystemStatus, 12) EXCEPT !.count = bytesRead]
WriteSuccessful(bytesWritten) == [WithCode(FilesystemStatus, 13) EXCEPT !.count = bytesWritten]
SeekError            == WithCode(FilesystemError, 14)
InvalidOpenMode      == WithCode(FilesystemError, 15)
FileContainerNotOpen == WithCode(FilesystemError, 16)
FailedToOpenFile     == WithCode(FilesystemError, 17)
FileCloseError       == WithCode(FilesystemError, 18)
FileReadError        == WithCode(FilesystemError, 19)
FileWriteError       == WithCode(FilesystemError, 20)
FileTruncateError    == WithCode(FilesystemError, 21)
FileFlushError       == WithCode(FilesystemError, 22)
==============================================================================
