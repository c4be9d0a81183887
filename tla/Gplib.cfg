SPECIFICATION Spec
CONSTANTS
    Files <- MCFiles
    MemberName <- MCMemberName
    Objects <- MCObjects
    NoObject = NoObject
    Versions <- MCVersions
    Arguments <- MCArguments
INVARIANT MembersAreFound
PROPERTY ImplementsLibraryFile
