SPECIFICATION Spec
CONSTANTS
    Images = {f, b, c}
    Signed = {f, b}
    Broken = {b}
    Factory = f
    None = None
    Blocks = 2
    UploadTimeout = 1
INVARIANT SelectedIsVerified
